---- MODULE Spec2Model ----
(***************************************************************************)
(* SentinelVNC: the session proxy (src/sentinelvnc_proxy.py), the backend  *)
(* detection engine and alert sink (src/backend/app/detector.py, main.py), *)
(* the polling detector (src/detector.py), the Merkle tree of the forensic *)
(* bundle (src/backend/app/forensics.py) and the anchoring of forensic     *)
(* files (src/merkle_anchor.py).                                           *)
(*                                                                         *)
(* Thirteen specifications share the variables:                            *)
(*   Spec          one proxy session from accept to cleanup                *)
(*   SpecLong      the same session, started after 99 forwarded chunks     *)
(*   SpecContain   a forwarding session and a caller of contain_session    *)
(*   SpecDetect    the detection engines fed with events                   *)
(*   SpecTwin      one engine run twice, with and without other sessions   *)
(*   SpecMerkle    root / proof / verify / bundle on a drawn leaf list     *)
(*   SpecIds       the accept loop and the session ids it hands out        *)
(*   SpecForensic  poll_events, the forensic files, create / verify anchor *)
(*   SpecSink      the backend's alert and containment endpoints           *)
(*   SpecPoll      poll_events over a file that also holds bad lines       *)
(*   SpecBurst     the rule detector fed with screenshot events            *)
(*   SpecFull      a session started with a full ring of samples           *)
(*   SpecProxySink the backend's alert endpoint fed by the proxy           *)
(***************************************************************************)
EXTENDS Integers, Sequences, FiniteSets, TLC

(* ------------------------------ bounds --------------------------------- *)
\* chunks the two peers send, together, during one run
MaxChunks == 3
\* the same for a run of SpecLong
MaxChunksLong == 2
\* wall clock stops advancing here
MaxClock == 6

\* events fed to the detectors during one run
MaxEvents == 2
\* leaves of the lists a Merkle root is built from
MaxLeaves == 4
\* lines the events file grows to
MaxLines == 3
\* the millisecond clock stops advancing here
MaxMs == 2
\* connections the proxy accepts during one run
MaxConns == 3
\* events given to the rule detector in one run of the burst rule
MaxShots == 6

(* -------------------------- program constants -------------------------- *)
CLIPBOARD_THRESHOLD_KB == 200
SCREENSHOT_BURST_COUNT == 5
SCREENSHOT_BURST_WINDOW_SEC == 10
FILE_TRANSFER_SIZE_MB == 50
RAPID_FILE_TRANSFER_COUNT == 2
RAPID_FILE_TRANSFER_WINDOW_SEC == 30
HISTORY_MAXLEN == 100
WINDOW_MAXLEN == 1000
ML_THRESHOLD == 50
RECV_SIZE == 4096
RING_MAXLEN == 100
CLIP_LAST_N == 10
PAYLOAD_LAST_N == 20
DEFAULT_CLIPBOARD_THRESHOLD_KB == 200
DEFAULT_FRAMEBURST_THRESHOLD_BYTES == 10 * 1024 * 1024
DEFAULT_FILE_TRANSFER_RATE_KBPS == 1000
FILE_TRANSFER_WINDOW_SEC == 5
BUNDLE_LAST_N == 5

(* ----------------------------- environment ----------------------------- *)
\* seconds added by one step of the wall clock: enough to move a sample out
\* of the rate window
TickStep == FILE_TRANSFER_WINDOW_SEC + 1
\* sizes recv(4096) returns in the model: a full read, and a short one from
\* the client
ChunkSizes(d) == IF d = "client_to_server" THEN {1024, RECV_SIZE} ELSE {RECV_SIZE}
\* timestamps the events carry
EventTimes == {0, 40}
\* leaf hashes
Leaves == {"a", "b", "c"}
\* the one session id of the model
SID == "session_1"
C2S == "client_to_server"
S2C == "server_to_client"
Dirs == {C2S, S2C}
Other(d) == IF d = C2S THEN S2C ELSE C2S
\* forward_data(source, dest, direction) as the two threads are started
Src(d) == IF d = C2S THEN "client" ELSE "server"
Dst(d) == IF d = C2S THEN "server" ELSE "client"
\* what the alert sink can do with a POST
SinkAnswers == {"contain", "no-op", "failed"}

NoData == [id |-> 0, size |-> 0]
NoAlert == [heuristic |-> "none", bytes |-> 0]
NoPayload == [heuristic |-> "none"]

VARIABLES
  cfg,                \* VNCProxy.__init__ arguments
  sessions,           \* self.sessions (ids)
  contained_sessions, \* self.contained_sessions
  session,            \* the session dict of SID
  hpc,                \* position of _handle_client
  pc,                 \* position of each forward_data thread
  sock,               \* local socket objects: "none", "open", "closed"
  data,               \* forward_data local: chunk just received
  current_time,       \* _check_heuristics local
  heuristic_alert,    \* forward_data local
  response,           \* _send_alert: what the sink did with the POST
  result,             \* forward_data local: return value of _send_alert
  iterDirty,          \* ring appended while line 142 iterates it
  crashed,            \* thread left forward_data with an uncaught exception
  avail,              \* chunks the peers have still to send
  rd,                 \* sizes of the chunks read from each source
  wr,                 \* ids of the chunks written to each destination
  alerts,             \* number of payloads POSTed to the sink
  payload,            \* the payload POSTed last
  clock,              \* time.time()
  engine,             \* backend DetectionEngine (rule histories, model)
  verdict,            \* last return value of DetectionEngine.evaluate
  hybrid,             \* HybridDetector (rule histories, model)
  alert,              \* last return value of HybridDetector.process_event
  nevents,            \* events fed to the detectors
  hashes,             \* the caller's leaf list
  leaves0,            \* the leaf list as drawn
  root,               \* create_merkle_root result
  item,               \* the leaf a proof is generated for
  proof,              \* generate_proof result
  verified,           \* verify_proof result
  mstep,              \* position of the Merkle round trip
  lines,              \* the lines of HybridDetector.events_file
  processed_lines,    \* self.processed_lines
  new_events,         \* poll_events local: events still to process
  time_ms,            \* int(time.time() * 1000)
  alerts_file,        \* the alerts appended to logs/alerts.jsonl
  forensic_dir,       \* the files of forensic/, by name
  anchor,             \* the anchor file written by create_anchor
  anchored,           \* forensic/ as it was when the anchor was created
  verify_result,      \* last return value of verify_anchor
  settings,           \* backend settings (AUTO_CONTAIN_ON_ALERT)
  db,                 \* the rows of the backend's alerts table
  sink_response,      \* last answer of POST /api/v1/alerts
  contain_response,   \* last answer of POST /api/v1/contain
  contain_result,     \* what VNCProxy.contain_session returned to its caller
  bundle,             \* the dict create_forensic_bundle returned
  bundle_ok,          \* last return value of verify_forensic_bundle
  conns,              \* the connections the proxy has accepted, in order
  engine2,            \* the DetectionEngine of a second run
  verdict2            \* last return value of its evaluate

proxyVars == <<cfg, sessions, contained_sessions, session, hpc, pc, sock, data,
               current_time, heuristic_alert, response, result, iterDirty,
               crashed, avail, rd, wr, alerts, payload, clock>>
detectVars == <<engine, verdict, hybrid, alert, nevents>>
merkleVars == <<hashes, leaves0, root, item, proof, verified, mstep>>
forensicVars == <<lines, processed_lines, new_events, time_ms, alerts_file,
                  forensic_dir, anchor, anchored, verify_result>>
backendVars == <<settings, db, sink_response, contain_response>>
bundleVars == <<bundle, bundle_ok>>
twinVars == <<engine2, verdict2>>
vars == <<proxyVars, detectVars, merkleVars, forensicVars, backendVars,
          contain_result, bundleVars, conns, twinVars>>

(* ------------------------------ helpers -------------------------------- *)
RECURSIVE SumBytesTo(_, _, _)
\* the bytes of the first n samples that have direction d
SumBytesTo(samples, d, n) ==
  IF n = 0 THEN 0
  ELSE (IF samples[n].direction = d THEN samples[n].bytes ELSE 0)
       + SumBytesTo(samples, d, n - 1)

\* sum(s["bytes"] for s in samples if s["direction"] == d)
SumBytes(samples, d) == SumBytesTo(samples, d, Len(samples))

RECURSIVE SumSizes(_, _)
\* sum of the first n entries of a sequence of sizes
SumSizes(sizes, n) ==
  IF n = 0 THEN 0 ELSE sizes[n] + SumSizes(sizes, n - 1)

\* list(x)[-n:]
LastN(s, n) == IF Len(s) <= n THEN s ELSE SubSeq(s, Len(s) - n + 1, Len(s))

\* an append to a deque without maxlen
RingAppend_grow(ring, sample) == Append(ring, sample)

\* deque(maxlen=100).append
RingAppend(ring, sample) ==
  IF Len(ring) >= RING_MAXLEN THEN Append(Tail(ring), sample)
  ELSE Append(ring, sample)

Range(s) == {s[i] : i \in 1..Len(s)}

(* --------------------------- VNCProxy.__init__ -------------------------- *)
\* lines 36-38: the defaults of the constructor
\* the defaults with half the rate threshold
DefaultThresholds_halfrate ==
  [clipboard_threshold_kb |-> DEFAULT_CLIPBOARD_THRESHOLD_KB,
   frameburst_threshold_bytes |-> DEFAULT_FRAMEBURST_THRESHOLD_BYTES,
   file_transfer_rate_threshold_kbps |-> DEFAULT_FILE_TRANSFER_RATE_KBPS \div 2]

DefaultThresholds ==
  [clipboard_threshold_kb |-> DEFAULT_CLIPBOARD_THRESHOLD_KB,
   frameburst_threshold_bytes |-> DEFAULT_FRAMEBURST_THRESHOLD_BYTES,
   file_transfer_rate_threshold_kbps |-> DEFAULT_FILE_TRANSFER_RATE_KBPS]

\* --clipboard-threshold-kb 1 --file-transfer-rate-kbps 1 and a frameburst
\* threshold of 2048 bytes: every heuristic can fire on reads of <= 4096
LowThresholds ==
  [clipboard_threshold_kb |-> 1,
   frameburst_threshold_bytes |-> 2048,
   file_transfer_rate_threshold_kbps |-> 1]

Thresholds == {DefaultThresholds, LowThresholds}

Configs ==
  { [contain_on_alert |-> c, thresholds |-> t] : c \in BOOLEAN, t \in Thresholds }

\* _create_session
NewSession ==
  [client_to_server_bytes |-> 0, server_to_client_bytes |-> 0,
   client_to_server_packets |-> 0, server_to_client_packets |-> 0,
   recent_samples |-> <<>>]

ProxyIdle ==
  /\ sessions = {}
  /\ contained_sessions = {}
  /\ session = NewSession
  /\ hpc = "idle"
  /\ pc = [d \in Dirs |-> "unstarted"]
  /\ sock = [s \in {"client", "server"} |-> "none"]
  /\ data = [d \in Dirs |-> NoData]
  /\ current_time = [d \in Dirs |-> 0]
  /\ heuristic_alert = [d \in Dirs |-> NoAlert]
  /\ response = [d \in Dirs |-> "none"]
  /\ result = [d \in Dirs |-> "none"]
  /\ iterDirty = FALSE
  /\ crashed = [d \in Dirs |-> FALSE]
  /\ avail = MaxChunks
  /\ rd = [d \in Dirs |-> <<>>]
  /\ wr = [d \in Dirs |-> <<>>]
  /\ alerts = 0
  /\ payload = NoPayload
  /\ clock = 0


(* ------------------------- _check_heuristics --------------------------- *)
\* the bytes of a chunk counted for the opposite direction
CountChunk_swapped(sess, d, size) ==
  IF d = C2S
  THEN [sess EXCEPT !.server_to_client_bytes = @ + size,
                    !.client_to_server_packets = @ + 1]
  ELSE [sess EXCEPT !.client_to_server_bytes = @ + size,
                    !.server_to_client_packets = @ + 1]

\* lines 97-102: the counters of one direction
CountChunk(sess, d, size) ==
  IF d = C2S
  THEN [sess EXCEPT !.client_to_server_bytes = @ + size,
                    !.client_to_server_packets = @ + 1]
  ELSE [sess EXCEPT !.server_to_client_bytes = @ + size,
                    !.server_to_client_packets = @ + 1]

\* the chunk is counted but no sample is stored
StoreSample_skip(sess, d, size, now) == sess

\* lines 105-110
StoreSample(sess, d, size, now) ==
  [sess EXCEPT !.recent_samples =
     RingAppend(@, [timestamp |-> now, direction |-> d, bytes |-> size])]

\* line 115-119: client->server bytes among the last 10 samples
RecentClientBytes(ring) == SumBytes(LastN(ring, CLIP_LAST_N), C2S)

\* the burst test with >= in place of >
ClipboardTriggered_ge(ring, thr) ==
  RecentClientBytes(ring) >= thr.clipboard_threshold_kb * 1024

\* line 121
ClipboardTriggered(ring, thr) ==
  RecentClientBytes(ring) > thr.clipboard_threshold_kb * 1024

\* line 131
FrameburstTriggered(size, thr) == size > thr.frameburst_threshold_bytes

\* lines 141-146: client->server bytes of the samples inside the window
WindowBytes(ring, now) ==
  SumBytes(SelectSeq(ring,
             LAMBDA s : s.timestamp >= now - FILE_TRANSFER_WINDOW_SEC), C2S)

\* lines 147-149: (window_bytes * 8) / (window_sec * 1024) > threshold;
\* the quotient is a float, compared here by cross-multiplication
RateTriggered(ring, now, thr) ==
  WindowBytes(ring, now) * 8
    > thr.file_transfer_rate_threshold_kbps * (FILE_TRANSFER_WINDOW_SEC * 1024)

(* ----------------------------- _send_alert ----------------------------- *)
\* lines 162-184
AlertPayload(sess, ha, now) ==
  [session_id |-> SID, timestamp |-> now,
   heuristic |-> ha.heuristic, bytes |-> ha.bytes,
   recent_samples |-> LastN(sess.recent_samples, PAYLOAD_LAST_N),
   session_stats |->
     [client_to_server_bytes |-> sess.client_to_server_bytes,
      server_to_client_bytes |-> sess.server_to_client_bytes,
      client_to_server_packets |-> sess.client_to_server_packets,
      server_to_client_packets |-> sess.server_to_client_packets]]

\* contain_on_alert honoured although the POST failed
SendAlertResult_failcontain(answer, contain_on_alert) ==
  IF answer = "contain" \/ contain_on_alert THEN "contain"
  ELSE IF answer = "failed" THEN "None"
  ELSE answer

\* lines 186-206: the return value; "None" after a RequestException
SendAlertResult(answer, contain_on_alert) ==
  IF answer = "failed" THEN "None"
  ELSE IF answer = "contain" \/ contain_on_alert THEN "contain"
  ELSE answer

\* the containment branch never taken
ShouldContain_never(res) == FALSE

\* line 251: result and result.get("action") == "contain"
ShouldContain(res) == res = "contain"

(* --------------------------- _handle_client ---------------------------- *)
\* start(): accept, then lines 210-211 of the handler thread
Accept ==
  /\ hpc = "idle"
  /\ sessions' = sessions \cup {SID}
  /\ session' = NewSession
  /\ sock' = [sock EXCEPT !["client"] = "open"]
  /\ hpc' = "connect"
  /\ UNCHANGED <<bundleVars, conns, twinVars,
                 detectVars, merkleVars, forensicVars, backendVars,
                 contain_result, cfg, contained_sessions, pc, data, current_time,
                 heuristic_alert, response, result, iterDirty, crashed,
                 avail, rd, wr, alerts, payload, clock>>

\* lines 217-219; a failed connect raises socket.error (line 287)
Connect ==
  /\ hpc = "connect"
  /\ \E ok \in BOOLEAN :
       IF ok
       THEN /\ sock' = [sock EXCEPT !["server"] = "open"]
            /\ hpc' = "precheck"
       ELSE /\ sock' = sock
            /\ hpc' = "cleanup"
  /\ UNCHANGED <<bundleVars, conns, twinVars,
                 detectVars, merkleVars, forensicVars, backendVars,
                 contain_result, cfg, sessions, contained_sessions, session, pc, data,
                 current_time, heuristic_alert, response, result, iterDirty,
                 crashed, avail, rd, wr, alerts, payload, clock>>

\* lines 223-227, then lines 269-281
PreCheck ==
  /\ hpc = "precheck"
  /\ IF SID \in contained_sessions
     THEN /\ sock' = [s \in {"client", "server"} |-> "closed"]
          /\ hpc' = "cleanup"
          /\ pc' = pc
     ELSE /\ sock' = sock
          /\ hpc' = "join"
          /\ pc' = [d \in Dirs |-> "recv"]
  /\ UNCHANGED <<bundleVars, conns, twinVars,
                 detectVars, merkleVars, forensicVars, backendVars,
                 contain_result, cfg, sessions, contained_sessions, session, data,
                 current_time, heuristic_alert, response, result, iterDirty,
                 crashed, avail, rd, wr, alerts, payload, clock>>

\* the finally block without lines 302-303: the session stays in the table
Cleanup_keep ==
  /\ \/ hpc = "cleanup"
     \/ hpc = "join" /\ \A d \in Dirs : pc[d] = "done"
  /\ sock' = [s \in {"client", "server"} |->
                IF sock[s] = "none" THEN "none" ELSE "closed"]
  /\ hpc' = "closed"
  /\ UNCHANGED <<bundleVars, conns, twinVars,
                 detectVars, merkleVars, forensicVars, backendVars,
                 contain_result, cfg, sessions, contained_sessions, session, pc,
                 data, current_time, heuristic_alert, response, result,
                 iterDirty, crashed, avail, rd, wr, alerts, payload, clock>>

\* lines 284-285 have returned (or were never reached); lines 291-305
Cleanup ==
  /\ \/ hpc = "cleanup"
     \/ hpc = "join" /\ \A d \in Dirs : pc[d] = "done"
  /\ sock' = [s \in {"client", "server"} |->
                IF sock[s] = "none" THEN "none" ELSE "closed"]
  /\ sessions' = sessions \ {SID}
  /\ hpc' = "closed"
  /\ UNCHANGED <<bundleVars, conns, twinVars,
                 detectVars, merkleVars, forensicVars, backendVars,
                 contain_result, cfg, contained_sessions, session, pc, data, current_time,
                 heuristic_alert, response, result, iterDirty, crashed,
                 avail, rd, wr, alerts, payload, clock>>

\* contain_session(session_id), lines 307-313, the return value dropped;
\* for an unknown session the call changes nothing
ContainSession ==
  /\ SID \in sessions
  /\ contained_sessions' = contained_sessions \cup {SID}
  /\ UNCHANGED <<bundleVars, conns, twinVars,
                 detectVars, merkleVars, forensicVars, backendVars,
                 contain_result, cfg, sessions, session, hpc, pc, sock, data, current_time,
                 heuristic_alert, response, result, iterDirty, crashed,
                 avail, rd, wr, alerts, payload, clock>>

\* contain_session(session_id), lines 307-313, called by somebody who keeps
\* the return value
OperatorContain ==
  /\ IF SID \in sessions
     THEN /\ contained_sessions' = contained_sessions \cup {SID}
          /\ contain_result' = "True"
     ELSE /\ contained_sessions' = contained_sessions
          /\ contain_result' = "False"
  /\ UNCHANGED <<bundleVars, conns, twinVars,
                 detectVars, merkleVars, forensicVars, backendVars,
                 cfg, sessions, session, hpc, pc, sock, data, current_time,
                 heuristic_alert, response, result, iterDirty, crashed,
                 avail, rd, wr, alerts, payload, clock>>

\* time.time() advances
Tick ==
  /\ clock + TickStep <= MaxClock
  /\ clock' = clock + TickStep
  /\ UNCHANGED <<bundleVars, conns, twinVars,
                 detectVars, merkleVars, forensicVars, backendVars,
                 contain_result, cfg, sessions, contained_sessions, session, hpc, pc, sock,
                 data, current_time, heuristic_alert, response, result,
                 iterDirty, crashed, avail, rd, wr, alerts, payload>>


(* ----------------------------- forward_data ---------------------------- *)
\* line 234 returns a chunk
RecvData(d) ==
  /\ pc[d] = "recv"
  /\ sock[Src(d)] = "open"
  /\ avail > 0
  /\ \E size \in ChunkSizes(d) :
       /\ rd' = [rd EXCEPT ![d] = Append(@, size)]
       /\ data' = [data EXCEPT ![d] = [id |-> Len(rd[d]) + 1, size |-> size]]
  /\ avail' = avail - 1
  /\ pc' = [pc EXCEPT ![d] = "check"]
  /\ UNCHANGED <<bundleVars, conns, twinVars,
                 detectVars, merkleVars, forensicVars, backendVars,
                 contain_result, cfg, sessions, contained_sessions, session, hpc, sock,
                 current_time, heuristic_alert, response, result, iterDirty,
                 crashed, wr, alerts, payload, clock>>

\* line 234 returns b"" (the peer has closed): lines 235-236
RecvEOF(d) ==
  /\ pc[d] = "recv"
  /\ sock[Src(d)] = "open"
  /\ pc' = [pc EXCEPT ![d] = "close_source"]
  /\ UNCHANGED <<bundleVars, conns, twinVars,
                 detectVars, merkleVars, forensicVars, backendVars,
                 contain_result, cfg, sessions, contained_sessions, session, hpc, sock, data,
                 current_time, heuristic_alert, response, result, iterDirty,
                 crashed, avail, rd, wr, alerts, payload, clock>>

\* line 234 on a socket the other thread has closed: OSError, line 259
RecvError(d) ==
  /\ pc[d] = "recv"
  /\ sock[Src(d)] = "closed"
  /\ pc' = [pc EXCEPT ![d] = "close_source"]
  /\ UNCHANGED <<bundleVars, conns, twinVars,
                 detectVars, merkleVars, forensicVars, backendVars,
                 contain_result, cfg, sessions, contained_sessions, session, hpc, sock, data,
                 current_time, heuristic_alert, response, result, iterDirty,
                 crashed, avail, rd, wr, alerts, payload, clock>>

\* line 239
CheckContained(d) ==
  /\ pc[d] = "check"
  /\ pc' = [pc EXCEPT ![d] =
              IF SID \notin contained_sessions THEN "count" ELSE "send"]
  /\ UNCHANGED <<bundleVars, conns, twinVars,
                 detectVars, merkleVars, forensicVars, backendVars,
                 contain_result, cfg, sessions, contained_sessions, session, hpc, sock, data,
                 current_time, heuristic_alert, response, result, iterDirty,
                 crashed, avail, rd, wr, alerts, payload, clock>>

\* line 240 enters _check_heuristics: lines 93-102
Count(d) ==
  /\ pc[d] = "count"
  /\ current_time' = [current_time EXCEPT ![d] = clock]
  /\ session' = CountChunk(session, d, data[d].size)
  /\ pc' = [pc EXCEPT ![d] = "append"]
  /\ UNCHANGED <<bundleVars, conns, twinVars,
                 detectVars, merkleVars, forensicVars, backendVars,
                 contain_result, cfg, sessions, contained_sessions, hpc, sock, data,
                 heuristic_alert, response, result, iterDirty, crashed,
                 avail, rd, wr, alerts, payload, clock>>

\* lines 105-110; an append invalidates a deque iterator that is in use
AppendSample(d) ==
  /\ pc[d] = "append"
  /\ session' = StoreSample(session, d, data[d].size, current_time[d])
  /\ iterDirty' = (iterDirty \/ pc[Other(d)] = "rate")
  /\ pc' = [pc EXCEPT ![d] = "eval"]
  /\ UNCHANGED <<bundleVars, conns, twinVars,
                 detectVars, merkleVars, forensicVars, backendVars,
                 contain_result, cfg, sessions, contained_sessions, hpc, sock, data,
                 current_time, heuristic_alert, response, result, crashed,
                 avail, rd, wr, alerts, payload, clock>>

\* lines 113-137, and line 142 starting to iterate the ring
Eval(d) ==
  /\ pc[d] = "eval"
  /\ LET ring == session.recent_samples
         thr == cfg.thresholds
     IN IF d = C2S
        THEN IF ClipboardTriggered(ring, thr)
             THEN /\ heuristic_alert' = [heuristic_alert EXCEPT ![d] =
                        [heuristic |-> "clipboard_exfiltration",
                         bytes |-> RecentClientBytes(ring)]]
                  /\ pc' = [pc EXCEPT ![d] = "alert"]
                  /\ iterDirty' = iterDirty
             ELSE /\ heuristic_alert' = heuristic_alert
                  /\ pc' = [pc EXCEPT ![d] = "rate"]
                  /\ iterDirty' = FALSE
        ELSE /\ iterDirty' = iterDirty
             /\ IF FrameburstTriggered(data[d].size, thr)
                THEN /\ heuristic_alert' = [heuristic_alert EXCEPT ![d] =
                           [heuristic |-> "frameburst", bytes |-> data[d].size]]
                     /\ pc' = [pc EXCEPT ![d] = "alert"]
                ELSE /\ heuristic_alert' = heuristic_alert
                     /\ pc' = [pc EXCEPT ![d] = "send"]
  /\ UNCHANGED <<bundleVars, conns, twinVars,
                 detectVars, merkleVars, forensicVars, backendVars,
                 contain_result, cfg, sessions, contained_sessions, session, hpc, sock, data,
                 current_time, response, result, crashed, avail, rd, wr,
                 alerts, payload, clock>>

\* lines 142-158; "deque mutated during iteration" is a RuntimeError, which
\* line 259 does not catch: the finally block runs and the thread dies
Rate(d) ==
  /\ pc[d] = "rate"
  /\ LET ring == session.recent_samples
     IN IF iterDirty
        THEN /\ crashed' = [crashed EXCEPT ![d] = TRUE]
             /\ heuristic_alert' = heuristic_alert
             /\ pc' = [pc EXCEPT ![d] = "close_source"]
        ELSE /\ crashed' = crashed
             /\ IF RateTriggered(ring, current_time[d], cfg.thresholds)
                THEN /\ heuristic_alert' = [heuristic_alert EXCEPT ![d] =
                           [heuristic |-> "file_transfer_like",
                            bytes |-> WindowBytes(ring, current_time[d])]]
                     /\ pc' = [pc EXCEPT ![d] = "alert"]
                ELSE /\ heuristic_alert' = heuristic_alert
                     /\ pc' = [pc EXCEPT ![d] = "send"]
  /\ iterDirty' = FALSE
  /\ UNCHANGED <<bundleVars, conns, twinVars,
                 detectVars, merkleVars, forensicVars, backendVars,
                 contain_result, cfg, sessions, contained_sessions, session, hpc, sock, data,
                 current_time, response, result, avail, rd, wr, alerts, payload, clock>>

\* line 248: _send_alert, lines 160-206
SendAlert(d) ==
  /\ pc[d] = "alert"
  /\ alerts' = alerts + 1
  /\ payload' = AlertPayload(session, heuristic_alert[d], clock)
  /\ \E answer \in SinkAnswers :
       /\ response' = [response EXCEPT ![d] = answer]
       /\ result' = [result EXCEPT ![d] =
                       SendAlertResult(answer, cfg.contain_on_alert)]
  /\ pc' = [pc EXCEPT ![d] = "act"]
  /\ UNCHANGED <<bundleVars, conns, twinVars,
                 detectVars, merkleVars, forensicVars, backendVars,
                 contain_result, cfg, sessions, contained_sessions, session, hpc, sock, data,
                 current_time, heuristic_alert, iterDirty, crashed, avail,
                 rd, wr, clock>>

\* lines 251-254
Act(d) ==
  /\ pc[d] = "act"
  /\ IF ShouldContain(result[d])
     THEN /\ contained_sessions' = contained_sessions \cup {SID}
          /\ pc' = [pc EXCEPT ![d] = "close_source"]
     ELSE /\ contained_sessions' = contained_sessions
          /\ pc' = [pc EXCEPT ![d] = "send"]
  /\ UNCHANGED <<bundleVars, conns, twinVars,
                 detectVars, merkleVars, forensicVars, backendVars,
                 contain_result, cfg, sessions, session, hpc, sock, data, current_time,
                 heuristic_alert, response, result, iterDirty, crashed,
                 avail, rd, wr, alerts, payload, clock>>

\* line 257; sendall on a socket closed by the other thread: OSError, line 259
Send(d) ==
  /\ pc[d] = "send"
  /\ IF sock[Dst(d)] = "open"
     THEN /\ wr' = [wr EXCEPT ![d] = Append(@, data[d].id)]
          /\ pc' = [pc EXCEPT ![d] = "recv"]
          \* the locals of this iteration are dead from here on
          /\ data' = [data EXCEPT ![d] = NoData]
          /\ current_time' = [current_time EXCEPT ![d] = 0]
          /\ heuristic_alert' = [heuristic_alert EXCEPT ![d] = NoAlert]
          /\ response' = [response EXCEPT ![d] = "none"]
          /\ result' = [result EXCEPT ![d] = "none"]
     ELSE /\ wr' = wr
          /\ pc' = [pc EXCEPT ![d] = "close_source"]
          /\ UNCHANGED <<data, current_time, heuristic_alert, response, result>>
  /\ UNCHANGED <<bundleVars, conns, twinVars,
                 detectVars, merkleVars, forensicVars, backendVars,
                 contain_result, cfg, sessions, contained_sessions, session, hpc, sock,
                 iterDirty, crashed, avail, rd, alerts, payload, clock>>

\* line 263
CloseSource(d) ==
  /\ pc[d] = "close_source"
  /\ sock' = [sock EXCEPT ![Src(d)] = "closed"]
  /\ pc' = [pc EXCEPT ![d] = "close_dest"]
  /\ UNCHANGED <<bundleVars, conns, twinVars,
                 detectVars, merkleVars, forensicVars, backendVars,
                 contain_result, cfg, sessions, contained_sessions, session, hpc, data,
                 current_time, heuristic_alert, response, result, iterDirty,
                 crashed, avail, rd, wr, alerts, payload, clock>>

\* line 264
CloseDest(d) ==
  /\ pc[d] = "close_dest"
  /\ sock' = [sock EXCEPT ![Dst(d)] = "closed"]
  /\ pc' = [pc EXCEPT ![d] = "done"]
  /\ UNCHANGED <<bundleVars, conns, twinVars,
                 detectVars, merkleVars, forensicVars, backendVars,
                 contain_result, cfg, sessions, contained_sessions, session, hpc, data,
                 current_time, heuristic_alert, response, result, iterDirty,
                 crashed, avail, rd, wr, alerts, payload, clock>>

Forward(d) ==
  \/ RecvData(d) \/ RecvEOF(d) \/ RecvError(d) \/ CheckContained(d)
  \/ Count(d) \/ AppendSample(d) \/ Eval(d) \/ Rate(d) \/ SendAlert(d)
  \/ Act(d) \/ Send(d) \/ CloseSource(d) \/ CloseDest(d)

(* ------------------------- start: the accept loop ----------------------- *)
\* the peers that connect: one client host, two source ports
ClientAddrs == {[ip |-> "10.0.0.7", port |-> pt] : pt \in {5900, 5901}}

\* _generate_session_id, lines 65-67; now is int(time.time())
generate_session_id(client_addr, now) ==
  "session_" \o client_addr.ip \o "_" \o ToString(client_addr.port)
    \o "_" \o ToString(now)

\* start(), line 331, and lines 210-211 of the handler thread: a peer whose
\* address no open connection has is accepted and gets its session entry
AcceptConn ==
  /\ Len(conns) < MaxConns
  /\ \E a \in ClientAddrs :
       /\ \A i \in 1..Len(conns) : conns[i].open => conns[i].client_addr # a
       /\ LET session_id == generate_session_id(a, clock)
          IN /\ conns' = Append(conns, [client_addr |-> a,
                                        session_id |-> session_id,
                                        open |-> TRUE])
             /\ sessions' = sessions \cup {session_id}
  /\ UNCHANGED <<bundleVars, twinVars, detectVars, merkleVars, forensicVars,
                 backendVars, contain_result, cfg, contained_sessions, session,
                 hpc, pc, sock, data, current_time, heuristic_alert, response,
                 result, iterDirty, crashed, avail, rd, wr, alerts, payload,
                 clock>>

\* lines 291-305: a handler thread ends
CloseConn ==
  /\ \E i \in 1..Len(conns) :
       /\ conns[i].open
       /\ conns' = [conns EXCEPT ![i].open = FALSE]
       /\ sessions' = sessions \ {conns[i].session_id}
  /\ UNCHANGED <<bundleVars, twinVars, detectVars, merkleVars, forensicVars,
                 backendVars, contain_result, cfg, contained_sessions, session,
                 hpc, pc, sock, data, current_time, heuristic_alert, response,
                 result, iterDirty, crashed, avail, rd, wr, alerts, payload,
                 clock>>

\* contain_session(session_id), lines 307-313, for an id of the table
ContainConn ==
  /\ \E id \in sessions \ contained_sessions :
       contained_sessions' = contained_sessions \cup {id}
  /\ UNCHANGED <<bundleVars, twinVars, detectVars, merkleVars, forensicVars,
                 backendVars, contain_result, conns, cfg, sessions, session,
                 hpc, pc, sock, data, current_time, heuristic_alert, response,
                 result, iterDirty, crashed, avail, rd, wr, alerts, payload,
                 clock>>

(* ------------------- RuleBasedDetector (both copies) -------------------- *)
NoEvent == [event_type |-> "none", timestamp |-> 0, size_kb |-> 0, size_mb |-> 0]

\* events the detectors are fed with; a field an event does not carry is 0,
\* which is what event.get(name, 0) returns for it.  clipboard_exfiltration
\* is an event type that the alert sink builds from a proxy payload.
Events ==
  { [event_type |-> "clipboard_copy", timestamp |-> t, size_kb |-> k, size_mb |-> 0]
      : t \in EventTimes, k \in {50, 250} }
  \cup { [event_type |-> ty, timestamp |-> t, size_kb |-> 0, size_mb |-> 0]
      : t \in EventTimes, ty \in {"screenshot", "clipboard_exfiltration"} }
  \cup { [event_type |-> "file_transfer", timestamp |-> t, size_kb |-> 0, size_mb |-> m]
      : t \in EventTimes, m \in {10, 60} }

\* deque(maxlen=n).append
DequeAppend(q, x, n) == IF Len(q) >= n THEN Append(Tail(q), x) ELSE Append(q, x)

NewRules ==
  [clipboard_history |-> <<>>, screenshot_history |-> <<>>,
   file_transfer_history |-> <<>>]

\* the histories after the three checks have seen the event
RulesAfter(r, e) ==
  [clipboard_history |->
     IF e.event_type = "clipboard_copy"
     THEN DequeAppend(r.clipboard_history, e, HISTORY_MAXLEN)
     ELSE r.clipboard_history,
   screenshot_history |->
     IF e.event_type = "screenshot"
     THEN DequeAppend(r.screenshot_history, e, HISTORY_MAXLEN)
     ELSE r.screenshot_history,
   file_transfer_history |->
     IF e.event_type = "file_transfer"
     THEN DequeAppend(r.file_transfer_history, e, HISTORY_MAXLEN)
     ELSE r.file_transfer_history]

\* events of a history whose timestamp is at most w seconds before now
Recent(h, now, w) == SelectSeq(h, LAMBDA x : now - x.timestamp <= w)

\* check_clipboard_rule
ClipboardRule(e) ==
  e.event_type = "clipboard_copy" /\ e.size_kb > CLIPBOARD_THRESHOLD_KB

\* check_screenshot_burst_rule, on the history that already holds the event
ScreenshotBurstRule(r, e) ==
  /\ e.event_type = "screenshot"
  /\ Len(Recent(r.screenshot_history, e.timestamp, SCREENSHOT_BURST_WINDOW_SEC))
       >= SCREENSHOT_BURST_COUNT

\* check_file_transfer_rule, on the history that already holds the event
FileTransferRule(r, e) ==
  /\ e.event_type = "file_transfer"
  /\ \/ e.size_mb > FILE_TRANSFER_SIZE_MB
     \/ Len(Recent(r.file_transfer_history, e.timestamp,
                   RAPID_FILE_TRANSFER_WINDOW_SEC)) >= RAPID_FILE_TRANSFER_COUNT

\* evaluate / evaluate_rules: the reasons, r being the histories afterwards
RuleReasons(r, e) ==
  (IF ClipboardRule(e) THEN <<"Rule 1">> ELSE <<>>)
  \o (IF ScreenshotBurstRule(r, e) THEN <<"Rule 2">> ELSE <<>>)
  \o (IF FileTransferRule(r, e) THEN <<"Rule 3">> ELSE <<>>)

\* events for the burst rule: screenshots stamped 0, 10 or 21 seconds, in
\* any order, and a small clipboard copy
ShotEvents ==
  { [event_type |-> "screenshot", timestamp |-> t, size_kb |-> 0, size_mb |-> 0]
      : t \in {0, SCREENSHOT_BURST_WINDOW_SEC, 2 * SCREENSHOT_BURST_WINDOW_SEC + 1} }
  \cup { [event_type |-> "clipboard_copy", timestamp |-> 0, size_kb |-> 50, size_mb |-> 0] }

\* RuleBasedDetector.evaluate_rules(event) on the detector of the engine:
\* the three checks in turn, the histories updated
EvaluateRules ==
  /\ nevents < MaxShots
  /\ \E e \in ShotEvents :
       LET rules == RulesAfter(engine.rules, e)
       IN engine' = [engine EXCEPT !.rules = rules,
                                   !.event = e,
                                   !.rule_alert = Len(RuleReasons(rules, e)) > 0]
  /\ nevents' = nevents + 1
  /\ UNCHANGED <<bundleVars, conns, twinVars, proxyVars, forensicVars,
                 backendVars, contain_result, merkleVars, verdict, hybrid,
                 alert>>

(* ------------------------------ ML scorers ------------------------------ *)
\* scores are in hundredths.  A loaded model returns predict_proba, any
\* probability, or 0.0 after a prediction error.
ModelScores == {0, 50, 51, 100}

\* MLDetectorStub.predict: random.uniform(0.3, 0.7) without a model
StubScores(model) == IF model = "none" THEN {30, 50, 51, 70} ELSE ModelScores

\* MLDetector.predict: 0.0 without a model
MLScores(model) == IF model = "none" THEN {0} ELSE ModelScores

\* ml_score > 0.5
MLAlert(score) == score > ML_THRESHOLD

(* ----------------- DetectionEngine (backend/app/detector.py) ------------ *)
\* "high" whenever there is an alert
EngineSeverity_or(rule_alert, ml_alert) ==
  IF rule_alert \/ ml_alert THEN "high" ELSE "low"

\* line 241
EngineSeverity(rule_alert, ml_alert) ==
  IF rule_alert /\ ml_alert THEN "high"
  ELSE IF rule_alert \/ ml_alert THEN "medium" ELSE "low"

\* lines 228-237
Methods(rule_alert, ml_alert) ==
  (IF rule_alert THEN <<"rule_based">> ELSE <<>>)
  \o (IF ml_alert THEN <<"ml_based">> ELSE <<>>)

\* lines 229-237
Reasons(rule_reasons, ml_alert) ==
  (IF rule_reasons # <<>> THEN rule_reasons ELSE <<>>)
  \o (IF ml_alert THEN <<"ML anomaly score">> ELSE <<>>)

\* lines 243-250
EngineVerdict(rule_reasons, score) ==
  LET rule_alert == Len(rule_reasons) > 0
      ml_alert == MLAlert(score)
  IN [is_alert |-> rule_alert \/ ml_alert,
      detection_methods |-> Methods(rule_alert, ml_alert),
      reasons |-> Reasons(rule_reasons, ml_alert),
      severity |-> EngineSeverity(rule_alert, ml_alert),
      ml_score |-> score]

NewDetector(model) ==
  [model |-> model, rules |-> NewRules, history_window |-> <<>>,
   event |-> NoEvent, rule_alert |-> FALSE, ml_alert |-> FALSE]

NoVerdict == [is_alert |-> FALSE, severity |-> "none"]

\* DetectionEngine.evaluate, lines 214-250; event, rule_alert and ml_alert
\* are the argument and the locals of the call
Evaluate ==
  /\ nevents < MaxEvents
  /\ \E e \in Events, score \in StubScores(engine.model) :
       LET rules == RulesAfter(engine.rules, e)
           reasons == RuleReasons(rules, e)
       IN /\ engine' = [engine EXCEPT
                          !.history_window = DequeAppend(@, e, WINDOW_MAXLEN),
                          !.rules = rules,
                          !.event = e,
                          !.rule_alert = Len(reasons) > 0,
                          !.ml_alert = MLAlert(score)]
          /\ verdict' = EngineVerdict(reasons, score)
  /\ nevents' = nevents + 1
  /\ UNCHANGED <<bundleVars, conns, twinVars,
                 proxyVars, forensicVars, backendVars, contain_result,
               merkleVars, hybrid, alert>>

\* the engine after evaluate(e), lines 214-226
EngineAfter(eng, e, score) ==
  LET rules == RulesAfter(eng.rules, e)
      reasons == RuleReasons(rules, e)
  IN [eng EXCEPT !.history_window = DequeAppend(@, e, WINDOW_MAXLEN),
                 !.rules = rules,
                 !.event = e,
                 !.rule_alert = Len(reasons) > 0,
                 !.ml_alert = MLAlert(score)]

\* Two runs of the one DetectionEngine of main.py (line 33): engine has seen
\* the events of one session only, engine2 the same events and, between
\* them, events that other sessions posted.
\* POST /api/v1/alerts of another session, main.py lines 61-70: run two only
EvaluateOther ==
  /\ nevents < MaxEvents
  /\ \E e \in Events, score \in StubScores(engine2.model) :
       engine2' = EngineAfter(engine2, e, score)
  /\ nevents' = nevents + 1
  /\ UNCHANGED <<bundleVars, conns, verdict2, proxyVars, forensicVars,
                 backendVars, contain_result, merkleVars, engine, verdict,
                 hybrid, alert>>

\* POST /api/v1/alerts of the session: the same event, with the same ML
\* score, is evaluated in both runs
EvaluateBoth ==
  /\ nevents < MaxEvents
  /\ \E e \in Events, score \in StubScores(engine.model) :
       /\ engine' = EngineAfter(engine, e, score)
       /\ verdict' =
            EngineVerdict(RuleReasons(RulesAfter(engine.rules, e), e), score)
       /\ engine2' = EngineAfter(engine2, e, score)
       /\ verdict2' =
            EngineVerdict(RuleReasons(RulesAfter(engine2.rules, e), e), score)
  /\ nevents' = nevents + 1
  /\ UNCHANGED <<bundleVars, conns, proxyVars, forensicVars, backendVars,
                 contain_result, merkleVars, hybrid, alert>>

(* ---------------------- HybridDetector (detector.py) -------------------- *)
\* line 267
HybridSeverity(rule_alert, ml_alert) ==
  IF rule_alert /\ ml_alert THEN "high" ELSE "medium"

None == [is_alert |-> FALSE, severity |-> "None"]

\* lines 256-280
HybridAlert(e, rule_reasons, score) ==
  LET rule_alert == Len(rule_reasons) > 0
      ml_alert == MLAlert(score)
  IN IF ~(rule_alert \/ ml_alert) THEN None
     ELSE [is_alert |-> TRUE,
           event |-> e,
           detection_methods |-> Methods(rule_alert, ml_alert),
           reasons |-> Reasons(rule_reasons, ml_alert),
           severity |-> HybridSeverity(rule_alert, ml_alert),
           ml_score |-> score]

\* HybridDetector.process_event, lines 242-280
ProcessEvent ==
  /\ nevents < MaxEvents
  /\ \E e \in Events, score \in MLScores(hybrid.model) :
       LET rules == RulesAfter(hybrid.rules, e)
           reasons == RuleReasons(rules, e)
       IN /\ hybrid' = [hybrid EXCEPT
                          !.history_window = DequeAppend(@, e, WINDOW_MAXLEN),
                          !.rules = rules,
                          !.event = e,
                          !.rule_alert = Len(reasons) > 0,
                          !.ml_alert = MLAlert(score)]
          /\ alert' = HybridAlert(e, reasons, score)
  /\ nevents' = nevents + 1
  /\ UNCHANGED <<bundleVars, conns, twinVars,
                 proxyVars, forensicVars, backendVars, contain_result,
               merkleVars, engine, verdict>>

(* ------------------ MerkleTree (backend/app/forensics.py) --------------- *)
\* hash_data: SHA-256 as a collision-free function of its input string
hash_data(str) == "[" \o str \o "]"

\* lines 27-28: build_tree appends to the list it was given
Padded(h) == IF Len(h) % 2 = 1 THEN Append(h, h[Len(h)]) ELSE h

\* lines 35-41 and 80-86: the parents of one level
NextLevel(level) ==
  [i \in 1..((Len(level) + 1) \div 2) |->
     hash_data(level[2 * i - 1]
               \o (IF 2 * i <= Len(level) THEN level[2 * i] ELSE level[2 * i - 1]))]

RECURSIVE TopOf(_)
\* lines 34-47
TopOf(level) == IF Len(level) > 1 THEN TopOf(NextLevel(level)) ELSE level[1]

\* build_tree(hashes)["root"]
build_tree_root(h) == IF h = <<>> THEN "" ELSE TopOf(Padded(h))

\* create_merkle_root
create_merkle_root(h) == IF h = <<>> THEN "" ELSE build_tree_root(h)

\* list.index: position of the first occurrence, counted from 0
IndexOf(h, x) == (CHOOSE i \in 1..Len(h) : h[i] = x /\ \A k \in 1..(i - 1) : h[k] # x) - 1

\* idx ^ 1
Xor1(idx) == IF idx % 2 = 0 THEN idx + 1 ELSE idx - 1

RECURSIVE ProofFrom(_, _)
\* lines 74-89
ProofFrom(level, idx) ==
  IF Len(level) > 1
  THEN (IF Xor1(idx) < Len(level) THEN <<level[Xor1(idx) + 1]>> ELSE <<>>)
       \o ProofFrom(NextLevel(level), idx \div 2)
  ELSE <<>>

\* generate_proof
generate_proof(h, x) ==
  IF x \notin Range(h) THEN <<>> ELSE ProofFrom(h, IndexOf(h, x))

RECURSIVE FoldProof(_, _)
\* lines 114-119
FoldProof(current, p) ==
  IF p = <<>> THEN current
  ELSE FoldProof(hash_data(current \o Head(p)), Tail(p))

\* verify_proof
verify_proof(r, p, x) == FoldProof(x, p) = r

\* every list of at most n leaves
LeafLists(n) == UNION { [1..k -> Leaves] : k \in 0..n }

\* root = MerkleTree.create_merkle_root(hashes)
CreateRoot ==
  /\ mstep = "drawn"
  /\ root' = create_merkle_root(hashes)
  /\ hashes' = Padded(hashes)
  /\ mstep' = "rooted"
  /\ UNCHANGED <<bundleVars, conns, twinVars,
                 proxyVars, forensicVars, backendVars, contain_result,
               detectVars, leaves0, item, proof, verified>>

\* proof = MerkleTree.generate_proof(hashes, L) for a leaf L of the list
GenerateProof ==
  /\ mstep = "rooted"
  /\ \E x \in Range(leaves0) :
       /\ item' = x
       /\ proof' = generate_proof(hashes, x)
  /\ mstep' = "proved"
  /\ UNCHANGED <<bundleVars, conns, twinVars,
                 proxyVars, forensicVars, backendVars, contain_result,
               detectVars, hashes, leaves0, root, verified>>

\* verify_proof(root, proof, L)
VerifyProof ==
  /\ mstep = "proved"
  /\ verified' = verify_proof(root, proof, item)
  /\ mstep' = "verified"
  /\ UNCHANGED <<bundleVars, conns, twinVars,
                 proxyVars, forensicVars, backendVars, contain_result,
               detectVars, hashes, leaves0, root, item, proof>>

\* verify_proof(root, proof, L2) for a leaf hash L2 other than L
VerifyTampered ==
  /\ mstep = "proved"
  /\ \E x \in (Leaves \cup {hash_data(item)}) \ {item} :
       /\ item' = x
       /\ verified' = verify_proof(root, proof, x)
  /\ mstep' = "tampered"
  /\ UNCHANGED <<bundleVars, conns, twinVars,
                 proxyVars, forensicVars, backendVars, contain_result,
               detectVars, hashes, leaves0, root, proof>>

(* ------------- HybridDetector.poll_events (src/detector.py) ------------- *)
\* events the attack simulator writes to the events file
LineEvents ==
  {e \in Events : /\ e.timestamp = 0
                  /\ \/ e.event_type = "clipboard_copy"
                     \/ e.event_type = "file_transfer" /\ e.size_mb <= FILE_TRANSFER_SIZE_MB}

\* json.dumps(x, sort_keys=True): one text per value, different values
\* giving different texts
canonical(x) == ToString(x)

\* MLDetector.predict, lines 181-203: the explainability info
MLInfo(model, score) ==
  IF model = "none" THEN [error |-> "Model not loaded"]
  ELSE [anomaly_score |-> score]

\* process_event, lines 261-280: the alert dict; the id is the millisecond
\* the alert was built in
PollAlert(e, rule_reasons, score, model, ms) ==
  LET a == HybridAlert(e, rule_reasons, score)
  IN IF ~a.is_alert THEN None
     ELSE [is_alert |-> TRUE,
           alert_id |-> ms,
           timestamp |-> e.timestamp,
           event |-> e,
           detection_methods |-> a.detection_methods,
           reasons |-> a.reasons,
           severity |-> a.severity,
           ml_score |-> score,
           ml_info |-> MLInfo(model, score)]

\* the dict process_event returns, as json.dumps sees it
AlertDict(a) == [f \in DOMAIN a \ {"is_alert"} |-> a[f]]

\* _compute_hash, lines 305-309
compute_hash(a) == hash_data(canonical(AlertDict(a)))

\* generate_forensic_json, lines 284-296
Forensic(a) ==
  [forensic_id |-> a.alert_id,
   timestamp |-> a.timestamp,
   datetime |-> [isoformat |-> a.timestamp],
   event_type |-> a.event.event_type,
   detection_methods |-> a.detection_methods,
   reasons |-> a.reasons,
   severity |-> a.severity,
   ml_score |-> a.ml_score,
   event_details |-> a.event,
   containment_status |-> "pending",
   hash |-> compute_hash(a)]

\* open(name, 'w') and json.dump: the file is created or replaced
WriteFile(dir, name, content) ==
  [n \in DOMAIN dir \cup {name} |-> IF n = name THEN content ELSE dir[n]]

\* the file removed from the directory
RemoveFile(dir, name) == [n \in DOMAIN dir \ {name} |-> dir[n]]

RECURSIVE SortedSeq(_)
\* sorted(S)
SortedSeq(S) ==
  IF S = {} THEN <<>>
  ELSE LET m == CHOOSE x \in S : \A y \in S : x <= y
       IN <<m>> \o SortedSeq(S \ {m})

\* the attack simulator appends an event to the events file
WriteEvent ==
  /\ Len(lines) < MaxLines
  /\ \E e \in LineEvents : lines' = Append(lines, e)
  /\ UNCHANGED <<bundleVars, conns, twinVars,
                 proxyVars, detectVars, merkleVars, backendVars, contain_result,
                 processed_lines, new_events, time_ms, alerts_file,
                 forensic_dir, anchor, anchored, verify_result>>

\* a line of the events file that json.loads rejects
Malformed ==
  [event_type |-> "<not json>", timestamp |-> 0, size_kb |-> 0, size_mb |-> 0]

\* json.loads(line.strip()) returns, lines 326-331
Parsable(line) == line # Malformed

\* the attack simulator, or anything else, appends a line
WriteLine ==
  /\ Len(lines) < MaxLines
  /\ \E l \in LineEvents \cup {Malformed} : lines' = Append(lines, l)
  /\ UNCHANGED <<bundleVars, conns, twinVars,
                 proxyVars, detectVars, merkleVars, backendVars, contain_result,
                 processed_lines, new_events, time_ms, alerts_file,
                 forensic_dir, anchor, anchored, verify_result>>

\* poll_events, lines 319-331: one pass reads the file and queues the
\* lines not seen before that parse (line numbers count from 0)
PollRead ==
  /\ new_events = <<>>
  /\ LET fresh == {i \in 0..(Len(lines) - 1) :
                     i \notin processed_lines /\ Parsable(lines[i + 1])}
         order == SortedSeq(fresh)
     IN /\ fresh # {}
        /\ new_events' = [k \in 1..Len(order) |-> <<order[k], lines[order[k] + 1]>>]
        /\ processed_lines' = processed_lines \cup fresh
  /\ UNCHANGED <<bundleVars, conns, twinVars,
                 proxyVars, detectVars, merkleVars, backendVars, contain_result,
                 lines, time_ms, alerts_file, forensic_dir, anchor, anchored,
                 verify_result>>

\* poll_events, lines 334-347: process_event on the next queued event and,
\* for an alert, the append to the alerts file and generate_forensic_json
PollProcess ==
  /\ new_events # <<>>
  /\ \E score \in MLScores(hybrid.model) :
       LET e == Head(new_events)[2]
           rules == RulesAfter(hybrid.rules, e)
           reasons == RuleReasons(rules, e)
           a == PollAlert(e, reasons, score, hybrid.model, time_ms)
       IN /\ hybrid' = [hybrid EXCEPT
                          !.history_window = DequeAppend(@, e, WINDOW_MAXLEN),
                          !.rules = rules,
                          !.event = e,
                          !.rule_alert = Len(reasons) > 0,
                          !.ml_alert = MLAlert(score)]
          /\ alert' = a
          /\ IF a.is_alert
             THEN /\ alerts_file' = Append(alerts_file, AlertDict(a))
                  /\ forensic_dir' = WriteFile(forensic_dir, a.alert_id, Forensic(a))
             ELSE UNCHANGED <<alerts_file, forensic_dir>>
  /\ new_events' = Tail(new_events)
  /\ UNCHANGED <<bundleVars, conns, twinVars,
                 proxyVars, merkleVars, backendVars, contain_result,
                 engine, verdict, nevents, lines, processed_lines, time_ms,
                 anchor, anchored, verify_result>>

\* poll_events, lines 334-342 and 355-357: process_event returned an alert,
\* the alert was appended to the alerts file, and generate_forensic_json
\* raised (open of line 300, or datetime.fromtimestamp of line 286); the
\* exception leaves the for loop, line 355 catches it and the loop polls
\* again
PollProcessRaises ==
  /\ new_events # <<>>
  /\ \E score \in MLScores(hybrid.model) :
       LET e == Head(new_events)[2]
           rules == RulesAfter(hybrid.rules, e)
           reasons == RuleReasons(rules, e)
           a == PollAlert(e, reasons, score, hybrid.model, time_ms)
       IN /\ a.is_alert
          /\ hybrid' = [hybrid EXCEPT
                          !.history_window = DequeAppend(@, e, WINDOW_MAXLEN),
                          !.rules = rules,
                          !.event = e,
                          !.rule_alert = Len(reasons) > 0,
                          !.ml_alert = MLAlert(score)]
          /\ alert' = a
          /\ alerts_file' = Append(alerts_file, AlertDict(a))
  /\ new_events' = <<>>
  /\ UNCHANGED <<bundleVars, conns, twinVars,
                 proxyVars, merkleVars, backendVars, contain_result,
                 engine, verdict, nevents, lines, processed_lines, time_ms,
                 forensic_dir, anchor, anchored, verify_result>>

\* a millisecond passes
TickMs ==
  /\ time_ms < MaxMs
  /\ time_ms' = time_ms + 1
  /\ UNCHANGED <<bundleVars, conns, twinVars,
                 proxyVars, detectVars, merkleVars, backendVars, contain_result,
                 lines, processed_lines, new_events, alerts_file, forensic_dir,
                 anchor, anchored, verify_result>>

(* ---------------- ForensicAnchoring (src/merkle_anchor.py) -------------- *)
NoAnchor == [merkle_root |-> "", forensic_count |-> 0, forensic_files |-> <<>>]

\* the leaf of a file that holds its name instead of its content
FileLeaf_name(dir, name) == hash_data(canonical(name))

\* create_merkle_root, lines 63-68: the leaf of one file
FileLeaf(dir, name) == hash_data(canonical(dir[name]))

\* MerkleTree.create_merkle_root, lines 56-74: the files in sorted order,
\* those that no longer exist skipped.  build_tree of merkle_anchor.py is
\* the build_tree of forensics.py.
files_merkle_root(names, dir) ==
  LET present == SelectSeq(SortedSeq(names), LAMBDA n : n \in DOMAIN dir)
      leaves == [k \in 1..Len(present) |-> FileLeaf(dir, present[k])]
  IN IF leaves = <<>> THEN "" ELSE build_tree_root(leaves)

\* create_anchor, lines 85-134: the explicit command.  The model keeps the
\* first anchor; glob order is replaced by sorted order, which is the order
\* create_merkle_root works in.
CreateAnchor ==
  /\ anchor = NoAnchor
  /\ DOMAIN forensic_dir # {}
  /\ anchor' = [merkle_root |-> files_merkle_root(DOMAIN forensic_dir, forensic_dir),
                forensic_count |-> Cardinality(DOMAIN forensic_dir),
                forensic_files |-> SortedSeq(DOMAIN forensic_dir)]
  /\ anchored' = forensic_dir
  /\ UNCHANGED <<bundleVars, conns, twinVars,
                 proxyVars, detectVars, merkleVars, backendVars, contain_result,
                 lines, processed_lines, new_events, time_ms, alerts_file,
                 forensic_dir, verify_result>>

\* what a listed record can be replaced by: the record with a field
\* changed, a copy of another file, the record as it was anchored
Rewritten(dir, name) ==
  ({[dir[name] EXCEPT !.severity = "low"]}
     \cup {dir[m] : m \in DOMAIN dir} \cup {anchored[name]}) \ {dir[name]}

\* somebody rewrites a listed forensic file
ModifyRecord ==
  /\ anchor # NoAnchor /\ verify_result = "none"
  /\ \E n \in Range(anchor.forensic_files) \cap DOMAIN forensic_dir :
       \E c \in Rewritten(forensic_dir, n) :
         forensic_dir' = WriteFile(forensic_dir, n, c)
  /\ UNCHANGED <<bundleVars, conns, twinVars,
                 proxyVars, detectVars, merkleVars, backendVars, contain_result,
                 lines, processed_lines, new_events, time_ms, alerts_file,
                 anchor, anchored, verify_result>>

\* somebody deletes a listed forensic file
RemoveRecord ==
  /\ anchor # NoAnchor /\ verify_result = "none"
  /\ \E n \in Range(anchor.forensic_files) \cap DOMAIN forensic_dir :
       forensic_dir' = RemoveFile(forensic_dir, n)
  /\ UNCHANGED <<bundleVars, conns, twinVars,
                 proxyVars, detectVars, merkleVars, backendVars, contain_result,
                 lines, processed_lines, new_events, time_ms, alerts_file,
                 anchor, anchored, verify_result>>

\* verify_anchor, lines 136-157, on the stored anchor
VerifyAnchor ==
  /\ anchor # NoAnchor /\ verify_result = "none"
  /\ verify_result' =
       IF files_merkle_root(Range(anchor.forensic_files), forensic_dir)
            = anchor.merkle_root
       THEN "True" ELSE "False"
  /\ UNCHANGED <<bundleVars, conns, twinVars,
                 proxyVars, detectVars, merkleVars, backendVars, contain_result,
                 lines, processed_lines, new_events, time_ms, alerts_file,
                 forensic_dir, anchor, anchored>>

(* --------------- forensic bundle (backend/app/forensics.py) ------------- *)
NoBundle ==
  [merkle_root |-> "", artifacts |-> <<>>, artifact_hashes |-> <<>>, proofs |-> <<>>]

\* create_forensic_bundle, lines 137-171, for artifacts that carry the
\* hashes hs: create_merkle_root pads artifact_hashes in place, and the
\* proofs, keyed by hash, are generated from the padded list
create_forensic_bundle(alert_data, hs) ==
  LET first == IF hs = <<>> THEN <<hash_data(canonical(alert_data))>> ELSE hs
      artifact_hashes == Padded(first)
  IN [merkle_root |-> create_merkle_root(first),
      artifacts |-> hs,
      artifact_hashes |-> artifact_hashes,
      proofs |-> [x \in Range(hs) |-> generate_proof(artifact_hashes, x)]]

\* verify_forensic_bundle, lines 174-191
verify_forensic_bundle(b) ==
  /\ b.merkle_root # ""
  /\ \A i \in 1..Len(b.artifacts) :
       b.artifacts[i] \in DOMAIN b.proofs
         => verify_proof(b.merkle_root, b.proofs[b.artifacts[i]], b.artifacts[i])

\* bundle = create_forensic_bundle(alert_data, artifacts), the artifacts
\* carrying the drawn leaf list as their hashes
CreateBundle ==
  /\ mstep # "idle"
  /\ bundle = NoBundle
  /\ bundle' = create_forensic_bundle([alert_id |-> 0], leaves0)
  /\ UNCHANGED <<proxyVars, detectVars, merkleVars, forensicVars, backendVars,
                 contain_result, bundle_ok, conns, twinVars>>

\* verify_forensic_bundle(bundle)
VerifyBundle ==
  /\ bundle # NoBundle
  /\ bundle_ok = "none"
  /\ bundle_ok' = IF verify_forensic_bundle(bundle) THEN "True" ELSE "False"
  /\ UNCHANGED <<proxyVars, detectVars, merkleVars, forensicVars, backendVars,
                 contain_result, bundle, conns, twinVars>>

(* ------------------------ backend (backend/app/main.py) ----------------- *)
NoResponse ==
  [action |-> "none", alert_id |-> -1, severity |-> "none", forensic_hash |-> ""]

NoContainResponse == [success |-> FALSE, status_code |-> 0]

\* db.commit() has raised IntegrityError (alert_id is a unique column): the
\* POST is answered with an error and carries no action
ErrorResponse ==
  [action |-> "error", alert_id |-> -1, severity |-> "none", forensic_hash |-> ""]

\* the AlertCreate bodies posted to the sink: the heuristics of the proxy
\* that the model posts, and file_transfer from another sender; with no
\* samples or with two
SinkPayloads ==
  { [session_id |-> SID, heuristic |-> h, timestamp |-> 0, bytes |-> RECV_SIZE,
     recent_samples |->
       [i \in 1..k |-> [timestamp |-> 0, direction |-> C2S, bytes |-> RECV_SIZE]]]
      : h \in {"clipboard_exfiltration", "file_transfer"}, k \in {0, 2} }

\* lines 59-64: the event handed to the detection engine; it has neither
\* size_kb nor size_mb
SinkEvent(p) ==
  [event_type |-> p.heuristic, timestamp |-> p.timestamp, size_kb |-> 0, size_mb |-> 0]

\* contain only when auto-contain is enabled
SinkAction_auto(v, s) ==
  IF v.is_alert /\ s.AUTO_CONTAIN_ON_ALERT THEN "contain" ELSE "no-op"

\* lines 70-80
SinkAction(v, s) ==
  IF v.is_alert /\ (s.AUTO_CONTAIN_ON_ALERT \/ v.severity = "high")
  THEN "contain" ELSE "no-op"

\* lines 101-104: the artifacts of the last five samples
Artifacts(p) ==
  [i \in 1..Len(LastN(p.recent_samples, BUNDLE_LAST_N)) |->
     "artifact_" \o ToString(i - 1)]

\* create_forensic_bundle(...)["merkle_root"], forensics.py lines 137-146
bundle_root(id, artifacts) ==
  create_merkle_root(IF artifacts = <<>>
                     THEN <<hash_data(canonical([alert_id |-> id]))>>
                     ELSE artifacts)

\* lines 84-111: the Alert row
AlertRow(p, v, id) ==
  [alert_id |-> id, session_id |-> p.session_id, event_type |-> p.heuristic,
   detection_methods |-> v.detection_methods, severity |-> v.severity,
   ml_score |-> v.ml_score, rule_reasons |-> v.reasons, status |-> "open",
   contained |-> FALSE,
   forensic_hash |-> bundle_root(id, Artifacts(p))]

\* POST /api/v1/alerts: create_alert, lines 51-129
Ingest(p) ==
  /\ nevents < MaxEvents
  /\ \E score \in StubScores(engine.model) :
       LET e == SinkEvent(p)
           rules == RulesAfter(engine.rules, e)
           reasons == RuleReasons(rules, e)
           v == EngineVerdict(reasons, score)
           row == AlertRow(p, v, time_ms)
       IN /\ engine' = [engine EXCEPT
                          !.history_window = DequeAppend(@, e, WINDOW_MAXLEN),
                          !.rules = rules,
                          !.event = e,
                          !.rule_alert = Len(reasons) > 0,
                          !.ml_alert = MLAlert(score)]
          /\ verdict' = v
          /\ IF \E i \in 1..Len(db) : db[i].alert_id = row.alert_id
             THEN /\ db' = db
                  /\ sink_response' = ErrorResponse
             ELSE /\ db' = Append(db, row)
                  /\ sink_response' =
                       [action |-> SinkAction(v, settings),
                        alert_id |-> row.alert_id,
                        severity |-> v.severity,
                        forensic_hash |-> row.forensic_hash]
  /\ nevents' = nevents + 1
  /\ UNCHANGED <<bundleVars, conns, twinVars,
                 proxyVars, merkleVars, forensicVars, contain_result,
                 hybrid, alert, settings, contain_response>>

\* POST /api/v1/alerts with one of the bodies above
CreateAlert == \E p \in SinkPayloads : Ingest(p)

\* the heuristic names of _check_heuristics, proxy lines 123, 133 and 152
ProxyHeuristics == {"clipboard_exfiltration", "frameburst", "file_transfer_like"}

\* the bodies _send_alert posts for a chunk of one full read
ProxyPayloads ==
  { [session_id |-> SID, heuristic |-> h, timestamp |-> 0, bytes |-> RECV_SIZE,
     recent_samples |->
       <<[timestamp |-> 0, direction |-> C2S, bytes |-> RECV_SIZE]>>]
      : h \in ProxyHeuristics }

\* POST /api/v1/alerts by the proxy
CreateProxyAlert == \E p \in ProxyPayloads : Ingest(p)

\* POST /api/v1/contain by an admin: contain_session, lines 132-168
ContainPost ==
  /\ IF \E i \in 1..Len(db) : db[i].session_id = SID
     THEN /\ db' = [i \in 1..Len(db) |->
                      IF db[i].session_id = SID
                      THEN [db[i] EXCEPT !.contained = TRUE, !.status = "contained"]
                      ELSE db[i]]
          /\ contain_response' = [success |-> TRUE, status_code |-> 200]
     ELSE /\ db' = db
          /\ contain_response' = [success |-> FALSE, status_code |-> 404]
  /\ UNCHANGED <<bundleVars, conns, twinVars,
                 proxyVars, detectVars, merkleVars, forensicVars, contain_result,
                 settings, sink_response>>

(* --------------------------- specifications ---------------------------- *)
DetectIdle ==
  /\ engine = NewDetector("none")
  /\ verdict = NoVerdict
  /\ hybrid = NewDetector("none")
  /\ alert = None
  /\ nevents = 0

MerkleIdle ==
  /\ hashes = <<>> /\ leaves0 = <<>> /\ root = "" /\ item = ""
  /\ proof = <<>> /\ verified = FALSE /\ mstep = "idle"

\* no bundle created yet
BundleIdle == bundle = NoBundle /\ bundle_ok = "none"

\* no second run
TwinIdle == engine2 = NewDetector("none") /\ verdict2 = NoVerdict

\* an empty events file, empty logs/ and forensic/, no anchor
ForensicIdle ==
  /\ lines = <<>> /\ processed_lines = {} /\ new_events = <<>>
  /\ time_ms = 0 /\ alerts_file = <<>> /\ forensic_dir = <<>>
  /\ anchor = NoAnchor /\ anchored = <<>> /\ verify_result = "none"

\* the backend as started with the default settings, nothing posted yet
BackendIdle ==
  /\ settings = [AUTO_CONTAIN_ON_ALERT |-> FALSE]
  /\ db = <<>> /\ sink_response = NoResponse /\ contain_response = NoContainResponse

Init ==
  /\ cfg \in Configs
  /\ ProxyIdle
  /\ DetectIdle
  /\ MerkleIdle
  /\ ForensicIdle
  /\ BackendIdle
  /\ contain_result = "none"
  /\ BundleIdle
  /\ conns = <<>>
  /\ TwinIdle

Next ==
  \/ Accept \/ Connect \/ PreCheck \/ Cleanup \/ ContainSession \/ Tick
  \/ \E d \in Dirs : Forward(d)

Spec == Init /\ [][Next]_vars

\* the detectors as constructed, with or without a model artifact
InitDetect ==
  /\ ForensicIdle
  /\ BackendIdle
  /\ contain_result = "none"
  /\ BundleIdle
  /\ conns = <<>>
  /\ TwinIdle
  /\ cfg \in {c \in Configs : c.thresholds = DefaultThresholds /\ ~c.contain_on_alert}
  /\ ProxyIdle
  /\ MerkleIdle
  /\ \E m \in {"none", "loaded"} : engine = NewDetector(m)
  /\ \E m \in {"none", "loaded"} : hybrid = NewDetector(m)
  /\ verdict = NoVerdict
  /\ alert = None
  /\ nevents = 0

NextDetect == Evaluate \/ ProcessEvent

SpecDetect == InitDetect /\ [][NextDetect]_vars

\* the backend's engine at start-up, once for each of the two runs
InitTwin ==
  /\ ForensicIdle
  /\ BackendIdle
  /\ contain_result = "none"
  /\ BundleIdle
  /\ conns = <<>>
  /\ cfg \in {c \in Configs : c.thresholds = DefaultThresholds /\ ~c.contain_on_alert}
  /\ ProxyIdle
  /\ MerkleIdle
  /\ \E m \in {"none", "loaded"} : engine = NewDetector(m) /\ engine2 = NewDetector(m)
  /\ hybrid = NewDetector("none")
  /\ verdict = NoVerdict
  /\ verdict2 = NoVerdict
  /\ alert = None
  /\ nevents = 0

NextTwin == EvaluateOther \/ EvaluateBoth

SpecTwin == InitTwin /\ [][NextTwin]_vars

\* the polling detector constructed without a model, the events file empty
InitPoll ==
  /\ BackendIdle
  /\ contain_result = "none"
  /\ BundleIdle
  /\ conns = <<>>
  /\ TwinIdle
  /\ cfg \in {c \in Configs : c.thresholds = DefaultThresholds /\ ~c.contain_on_alert}
  /\ ProxyIdle
  /\ DetectIdle
  /\ MerkleIdle
  /\ ForensicIdle

NextPoll == WriteLine \/ PollRead \/ PollProcess \/ PollProcessRaises \/ TickMs

SpecPoll == InitPoll /\ [][NextPoll]_vars

\* a fresh RuleBasedDetector
InitBurst ==
  /\ BackendIdle
  /\ contain_result = "none"
  /\ BundleIdle
  /\ conns = <<>>
  /\ TwinIdle
  /\ cfg \in {c \in Configs : c.thresholds = DefaultThresholds /\ ~c.contain_on_alert}
  /\ ProxyIdle
  /\ DetectIdle
  /\ MerkleIdle
  /\ ForensicIdle

NextBurst == EvaluateRules

SpecBurst == InitBurst /\ [][NextBurst]_vars

\* a caller holding a list of leaf hashes
InitMerkle ==
  /\ ForensicIdle
  /\ BackendIdle
  /\ contain_result = "none"
  /\ BundleIdle
  /\ conns = <<>>
  /\ TwinIdle
  /\ cfg \in {c \in Configs : c.thresholds = DefaultThresholds /\ ~c.contain_on_alert}
  /\ ProxyIdle
  /\ DetectIdle
  /\ hashes \in LeafLists(MaxLeaves)
  /\ leaves0 = hashes
  /\ root = "" /\ item = "" /\ proof = <<>> /\ verified = FALSE
  /\ mstep = "drawn"

NextMerkle ==
  \/ CreateRoot \/ GenerateProof \/ VerifyProof \/ VerifyTampered
  \/ CreateBundle \/ VerifyBundle

SpecMerkle == InitMerkle /\ [][NextMerkle]_vars

\* the poller on an empty events file, started without a model artifact,
\* and the anchoring tool beside it
InitForensic ==
  /\ cfg \in {c \in Configs : c.thresholds = DefaultThresholds /\ ~c.contain_on_alert}
  /\ ProxyIdle
  /\ MerkleIdle
  /\ ForensicIdle
  /\ BackendIdle
  /\ contain_result = "none"
  /\ BundleIdle
  /\ conns = <<>>
  /\ TwinIdle
  /\ DetectIdle

NextForensic ==
  \/ WriteEvent \/ PollRead \/ PollProcess \/ TickMs
  \/ CreateAnchor \/ ModifyRecord \/ RemoveRecord \/ VerifyAnchor

SpecForensic == InitForensic /\ [][NextForensic]_vars
\* a session accepted and connected, both forwarders waiting in recv, the
\* peers having n chunks to send
ProxyForwarding(n) ==
  /\ sessions = {SID}
  /\ contained_sessions = {}
  /\ session = NewSession
  /\ hpc = "join"
  /\ pc = [d \in Dirs |-> "recv"]
  /\ sock = [s \in {"client", "server"} |-> "open"]
  /\ data = [d \in Dirs |-> NoData]
  /\ current_time = [d \in Dirs |-> 0]
  /\ heuristic_alert = [d \in Dirs |-> NoAlert]
  /\ response = [d \in Dirs |-> "none"]
  /\ result = [d \in Dirs |-> "none"]
  /\ iterDirty = FALSE
  /\ crashed = [d \in Dirs |-> FALSE]
  /\ avail = n
  /\ rd = [d \in Dirs |-> <<>>]
  /\ wr = [d \in Dirs |-> <<>>]
  /\ alerts = 0
  /\ payload = NoPayload
  /\ clock = 0

\* the backend beside a proxy that forwards a session; the proxy's own
\* contain_session can be called at any time
InitSink ==
  /\ cfg \in {c \in Configs : c.thresholds = DefaultThresholds /\ ~c.contain_on_alert}
  /\ ProxyForwarding(0)
  /\ MerkleIdle
  /\ ForensicIdle
  /\ contain_result = "none"
  /\ BundleIdle
  /\ conns = <<>>
  /\ TwinIdle
  /\ \E m \in {"none", "loaded"} : engine = NewDetector(m)
  /\ verdict = NoVerdict
  /\ hybrid = NewDetector("none")
  /\ alert = None
  /\ nevents = 0
  /\ \E b \in BOOLEAN : settings = [AUTO_CONTAIN_ON_ALERT |-> b]
  /\ db = <<>> /\ sink_response = NoResponse /\ contain_response = NoContainResponse

NextSink == CreateAlert \/ TickMs \/ ContainPost \/ ContainSession

SpecSink == InitSink /\ [][NextSink]_vars

\* the sink receiving what the proxy posts
NextProxySink == CreateProxyAlert \/ TickMs

SpecProxySink == InitSink /\ [][NextProxySink]_vars

\* the proxy listening, no connection accepted yet
InitIds ==
  /\ cfg \in {c \in Configs : c.thresholds = DefaultThresholds /\ ~c.contain_on_alert}
  /\ ProxyIdle
  /\ DetectIdle
  /\ MerkleIdle
  /\ ForensicIdle
  /\ BackendIdle
  /\ contain_result = "none"
  /\ BundleIdle
  /\ conns = <<>>
  /\ TwinIdle

NextIds == AcceptConn \/ CloseConn \/ ContainConn \/ Tick

SpecIds == InitIds /\ [][NextIds]_vars

\* a forwarding session and an operator who calls contain_session
InitContain ==
  /\ cfg \in Configs
  /\ ProxyForwarding(MaxChunksLong)
  /\ DetectIdle
  /\ MerkleIdle
  /\ ForensicIdle
  /\ BackendIdle
  /\ contain_result = "none"
  /\ BundleIdle
  /\ conns = <<>>
  /\ TwinIdle

NextContain ==
  \/ Cleanup \/ OperatorContain \/ Tick
  \/ \E d \in Dirs : Forward(d)

SpecContain == InitContain /\ [][NextContain]_vars

(* ------------------- a session that has run for a while ----------------- *)
\* chunks already forwarded when SpecLong starts: one short of a full ring
LongRun == RING_MAXLEN - 1

\* the session dict after k client->server chunks of 1024 bytes at time 0
\* (k <= 100): k times lines 97-110
SessionAfter(k) ==
  [client_to_server_bytes |-> k * 1024, server_to_client_bytes |-> 0,
   client_to_server_packets |-> k, server_to_client_packets |-> 0,
   recent_samples |->
     [i \in 1..k |-> [timestamp |-> 0, direction |-> C2S, bytes |-> 1024]]]

\* Both forwarders wait in recv after LongRun client chunks were read,
\* sampled and written.  With the low thresholds each of them raised an
\* alert that the sink answered with no-op, the last one by heuristic 1.
InitLong ==
  /\ ForensicIdle
  /\ BackendIdle
  /\ contain_result = "none"
  /\ BundleIdle
  /\ conns = <<>>
  /\ TwinIdle
  /\ cfg \in {c \in Configs :
                c.thresholds = LowThresholds => ~c.contain_on_alert}
  /\ sessions = {SID}
  /\ contained_sessions = {}
  /\ session = SessionAfter(LongRun)
  /\ hpc = "join"
  /\ pc = [d \in Dirs |-> "recv"]
  /\ sock = [s \in {"client", "server"} |-> "open"]
  /\ data = [d \in Dirs |-> NoData]
  /\ current_time = [d \in Dirs |-> 0]
  /\ heuristic_alert = [d \in Dirs |-> NoAlert]
  /\ response = [d \in Dirs |-> "none"]
  /\ result = [d \in Dirs |-> "none"]
  /\ iterDirty = FALSE
  /\ crashed = [d \in Dirs |-> FALSE]
  /\ avail = MaxChunksLong
  /\ rd = [d \in Dirs |-> IF d = C2S THEN [i \in 1..LongRun |-> 1024] ELSE <<>>]
  /\ wr = [d \in Dirs |-> IF d = C2S THEN [i \in 1..LongRun |-> i] ELSE <<>>]
  /\ IF cfg.thresholds = LowThresholds
     THEN /\ alerts = LongRun
          /\ payload = AlertPayload(session,
                         [heuristic |-> "clipboard_exfiltration",
                          bytes |-> RecentClientBytes(session.recent_samples)], 0)
     ELSE /\ alerts = 0
          /\ payload = NoPayload
  /\ clock = 0
  /\ DetectIdle
  /\ MerkleIdle

NextLong ==
  \/ Cleanup \/ ContainSession \/ Tick
  \/ \E d \in Dirs : Forward(d)

SpecLong == InitLong /\ [][NextLong]_vars

\* the session dict after RING_MAXLEN client->server chunks of RECV_SIZE
\* bytes at time 0: the ring is full of the largest samples a read gives
FullSession ==
  [client_to_server_bytes |-> RING_MAXLEN * RECV_SIZE, server_to_client_bytes |-> 0,
   client_to_server_packets |-> RING_MAXLEN, server_to_client_packets |-> 0,
   recent_samples |->
     [i \in 1..RING_MAXLEN |-> [timestamp |-> 0, direction |-> C2S, bytes |-> RECV_SIZE]]]

\* Both forwarders wait in recv after RING_MAXLEN full-size client chunks
\* within one second.  With the low thresholds each chunk raised an alert
\* that the sink answered with no-op.
InitFull ==
  /\ ForensicIdle
  /\ BackendIdle
  /\ contain_result = "none"
  /\ BundleIdle
  /\ conns = <<>>
  /\ TwinIdle
  /\ cfg \in {c \in Configs :
                c.thresholds = LowThresholds => ~c.contain_on_alert}
  /\ sessions = {SID}
  /\ contained_sessions = {}
  /\ session = FullSession
  /\ hpc = "join"
  /\ pc = [d \in Dirs |-> "recv"]
  /\ sock = [s \in {"client", "server"} |-> "open"]
  /\ data = [d \in Dirs |-> NoData]
  /\ current_time = [d \in Dirs |-> 0]
  /\ heuristic_alert = [d \in Dirs |-> NoAlert]
  /\ response = [d \in Dirs |-> "none"]
  /\ result = [d \in Dirs |-> "none"]
  /\ iterDirty = FALSE
  /\ crashed = [d \in Dirs |-> FALSE]
  /\ avail = MaxChunksLong
  /\ rd = [d \in Dirs |-> IF d = C2S THEN [i \in 1..RING_MAXLEN |-> RECV_SIZE] ELSE <<>>]
  /\ wr = [d \in Dirs |-> IF d = C2S THEN [i \in 1..RING_MAXLEN |-> i] ELSE <<>>]
  /\ IF cfg.thresholds = LowThresholds
     THEN /\ alerts = RING_MAXLEN
          /\ payload = AlertPayload(session,
                         [heuristic |-> "clipboard_exfiltration",
                          bytes |-> RecentClientBytes(session.recent_samples)], 0)
     ELSE /\ alerts = 0
          /\ payload = NoPayload
  /\ clock = 0
  /\ DetectIdle
  /\ MerkleIdle

NextFull ==
  \/ Cleanup \/ ContainSession \/ Tick
  \/ \E d \in Dirs : Forward(d)

SpecFull == InitFull /\ [][NextFull]_vars

(* ------------------------------ properties ----------------------------- *)
Contained == SID \in contained_sessions
Terminated == \A d \in Dirs : pc[d] = "done"
Ids(n) == [i \in 1..n |-> i]
BytesCounter(d) ==
  IF d = C2S THEN session.client_to_server_bytes
  ELSE session.server_to_client_bytes
PacketsCounter(d) ==
  IF d = C2S THEN session.client_to_server_packets
  ELSE session.server_to_client_packets
SamplesHeld(d) ==
  Len(SelectSeq(session.recent_samples, LAMBDA s : s.direction = d))
\* a step of the monitoring of one chunk: _check_heuristics or _send_alert
MonitoringStep(d) ==
  Count(d) \/ AppendSample(d) \/ Eval(d) \/ Rate(d) \/ SendAlert(d)
\* no forwarder is inside _check_heuristics
Quiescent == \A d \in Dirs : pc[d] \notin {"append", "eval", "rate"}

\* C1: once the session is contained, no forwarder writes a further chunk
\* to its destination (the chunks forwarded in either direction stay as
\* they are).
C1_NoForwardAfterContain == [][Contained => wr' = wr]_vars

\* C2: once the session is contained, no step of heuristic evaluation is
\* taken and no alert is posted, whatever the interleaving.
C2_NoVerdictAfterContain ==
  [][Contained => ~(\E d \in Dirs : MonitoringStep(d))]_vars

\* C3: when both forwarders have terminated and the session was not
\* contained, the chunks written in each direction are exactly the chunks
\* read in that direction, in order.
C3_ByteFaithful ==
  (Terminated /\ ~Contained) => \A d \in Dirs : wr[d] = Ids(Len(rd[d]))

\* C4: a forwarding loop that tests the contained set (line 239) while the
\* session is contained stops there and drops the chunk it has just read.
C4_ContainedLoopStops ==
  [][\A d \in Dirs : (Contained /\ CheckContained(d))
        => pc'[d] = "close_source"]_vars

\* C5: a chunk whose alert the sink answered with action = contain is never
\* written: the forwarder never reaches sendall with it, and the session is
\* in the contained set as soon as the forwarder has acted on the answer.
C5_ContainPrecedesForward ==
  \A d \in Dirs : response[d] = "contain" =>
     /\ pc[d] \in {"act", "close_source", "close_dest", "done"}
     /\ pc[d] # "act" => Contained
     /\ data[d].id \notin Range(wr[d])

C5_Witness ==
  \E d \in Dirs : /\ response[d] = "contain" /\ pc[d] = "done"
                  /\ ~cfg.contain_on_alert /\ Contained

\* C6: a heuristic evaluation that raises (the ring was appended to while
\* line 142 iterated it) is skipped: the forwarder goes on to sendall with
\* the chunk and does not terminate.
C6_MonitoringNeverAborts ==
  [][\A d \in Dirs : (iterDirty /\ Rate(d)) => pc'[d] = "send"]_vars

\* C7: when the POST of an alert failed, the forwarder does not contain the
\* session for that chunk and goes on to sendall; sendall on an open
\* destination writes the chunk and the loop returns to recv.
C7_SinkUnreachable ==
  [][\A d \in Dirs :
       /\ (response[d] = "failed" /\ Act(d))
            => (pc'[d] = "send" /\ contained_sessions' = contained_sessions)
       /\ (response[d] = "failed" /\ Send(d) /\ sock[Dst(d)] = "open")
            => (wr'[d] = Append(wr[d], data[d].id) /\ pc'[d] = "recv")]_vars

C7_Witness ==
  \E d \in Dirs : /\ response[d] = "failed" /\ pc[d] = "send"
                  /\ cfg.contain_on_alert /\ ~Contained

\* C8 as stated: at a quiescent point of a non-contained session the samples
\* held for a direction add up to the byte counter of that direction, and
\* there is a sample for every chunk counted.
C8_SamplingComplete ==
  (Quiescent /\ ~Contained) =>
     \A d \in Dirs : /\ SumBytes(session.recent_samples, d) = BytesCounter(d)
                     /\ SamplesHeld(d) = PacketsCounter(d)

\* C8 amended: at a quiescent point of a non-contained session the byte
\* counter of a direction is the total size of the chunks sampled so far,
\* every forwarded chunk has been sampled, and the samples held for the
\* direction add up to at most the counter, with equality as long as the
\* ring has evicted nothing (at most 100 chunks sampled).
C8_SamplingBounded ==
  (Quiescent /\ ~Contained) =>
     \A d \in Dirs :
        /\ PacketsCounter(d) <= Len(rd[d])
        /\ BytesCounter(d) = SumSizes(rd[d], PacketsCounter(d))
        /\ \A id \in Range(wr[d]) : id <= PacketsCounter(d)
        /\ SumBytes(session.recent_samples, d) <= BytesCounter(d)
        /\ PacketsCounter(C2S) + PacketsCounter(S2C) <= RING_MAXLEN
             => SumBytes(session.recent_samples, d) = BytesCounter(d)

C8_Witness ==
  /\ Quiescent /\ ~Contained
  /\ PacketsCounter(C2S) + PacketsCounter(S2C) > RING_MAXLEN
  /\ SumBytes(session.recent_samples, C2S) < BytesCounter(C2S)
  /\ Len(wr[C2S]) > RING_MAXLEN


\* C9: the verdict is the table's function of (rule_alert, ml_alert).  For
\* DetectionEngine.evaluate: is_alert = rule_alert or ml_alert, the methods
\* name rule_based iff rule_alert and ml_based iff ml_alert, severity is
\* high iff both, medium iff exactly one, low iff neither, and low iff not
\* is_alert.  HybridDetector.process_event returns no alert iff neither
\* holds, and an alert with the same methods and severity otherwise.
C9_VerdictTable ==
  /\ engine.event # NoEvent =>
       LET ra == engine.rule_alert
           ma == engine.ml_alert
       IN /\ verdict.is_alert = (ra \/ ma)
          /\ ("rule_based" \in Range(verdict.detection_methods)) = ra
          /\ ("ml_based" \in Range(verdict.detection_methods)) = ma
          /\ (verdict.severity = "high") = (ra /\ ma)
          /\ (verdict.severity = "medium") = (ra # ma)
          /\ (verdict.severity = "low") = (~ra /\ ~ma)
          /\ (verdict.severity = "low") = ~verdict.is_alert
  /\ hybrid.event # NoEvent =>
       LET ra == hybrid.rule_alert
           ma == hybrid.ml_alert
       IN /\ (alert = None) = (~ra /\ ~ma)
          /\ alert # None =>
               /\ ("rule_based" \in Range(alert.detection_methods)) = ra
               /\ ("ml_based" \in Range(alert.detection_methods)) = ma
               /\ (alert.severity = "high") = (ra /\ ma)
               /\ (alert.severity = "medium") = (ra # ma)

C9_Witness ==
  /\ verdict.severity = "high" /\ engine.rule_alert /\ engine.ml_alert
  /\ alert # None /\ alert.severity = "medium" /\ hybrid.rule_alert
  /\ ~hybrid.ml_alert

\* C10: after root = create_merkle_root(S) and proof = generate_proof(S, L)
\* for a leaf L of a non-empty S, verify_proof(root, proof, L) is true, and
\* verify_proof of the same root and proof with another leaf hash is false.
C10_MerkleRoundTrip ==
  /\ mstep = "verified" => verified
  /\ mstep = "tampered" => ~verified

\* every record the anchor lists is still in forensic/ and still hashes to
\* the leaf it had when the anchor was created
AnchorIntact ==
  \A n \in Range(anchor.forensic_files) :
    /\ n \in DOMAIN forensic_dir
    /\ hash_data(canonical(forensic_dir[n])) = hash_data(canonical(anchored[n]))

WithoutHash(rec) == [f \in DOMAIN rec \ {"hash"} |-> rec[f]]

\* C12: the hash stored in a forensic record is SHA-256 of the canonical
\* serialization of that record without its hash field, so it can be
\* recomputed from the stored record.  (Stated for the files as the poller
\* wrote them, before anybody rewrites one.)
C12_ForensicHashDefinition ==
  anchor = NoAnchor =>
    \A n \in DOMAIN forensic_dir :
      forensic_dir[n].hash = hash_data(canonical(WithoutHash(forensic_dir[n])))

\* C13: no two alerts receive the same alert_id, alerts built within the
\* same millisecond included: the n alerts raised so far carry n distinct
\* ids and left n forensic files, none overwritten.  (The file count is
\* stated for forensic/ before anybody deletes a file.)
C13_AlertIdsUnique ==
  /\ \A i, j \in 1..Len(alerts_file) :
       i # j => alerts_file[i].alert_id # alerts_file[j].alert_id
  /\ anchor = NoAnchor => Cardinality(DOMAIN forensic_dir) = Len(alerts_file)

\* (is_alert, reasons) the rule detector of det returned for the event it
\* evaluated last
RuleOutcome(det) ==
  LET reasons == RuleReasons(det.rules, det.event)
  IN <<Len(reasons) > 0, reasons>>

\* det has just evaluated the event it had evaluated the time before
Reevaluated(det, detNext) ==
  detNext # det /\ det.event # NoEvent /\ detNext.event = det.event

\* C14: evaluating the same event twice on the same detector returns the
\* same (is_alert, reasons); an evaluation has no side effect that changes
\* what a later evaluation of the same event returns.
C14_RulePurity ==
  [][/\ Reevaluated(engine, engine') => RuleOutcome(engine') = RuleOutcome(engine)
     /\ Reevaluated(hybrid, hybrid') => RuleOutcome(hybrid') = RuleOutcome(hybrid)]_vars

\* HybridDetector on MLDetector.predict without a model
HybridModelAbsent ==
  (hybrid.model = "none" /\ hybrid.event # NoEvent) =>
    /\ ~hybrid.ml_alert
    /\ alert.is_alert <=> hybrid.rule_alert
    /\ alert.is_alert => alert.ml_score = 0
    /\ alert.severity # "high"

\* DetectionEngine on MLDetectorStub.predict without a model
EngineModelAbsent ==
  (engine.model = "none" /\ engine.event # NoEvent) =>
    /\ verdict.ml_score = 0
    /\ ~engine.ml_alert
    /\ verdict.is_alert <=> engine.rule_alert
    /\ verdict.severity # "high"

\* C15: without a model artifact the ML scorer returns exactly 0.0 for every
\* event, so ml_alert is false, the verdict is decided by the rules alone
\* (no alert without a rule trigger) and the severity is never high.
C15_ModelAbsent == HybridModelAbsent /\ EngineModelAbsent

\* the step is a POST /api/v1/alerts that the sink has answered
AlertAnswered ==
  nevents' = nevents + 1 /\ sink_response'.action # "error"

\* C16: when re-evaluating a received payload yields is_alert = false, the
\* sink returns action = no-op, persists no Alert record and assigns no
\* forensic_hash.
C16_SinkDowngrade ==
  [][(AlertAnswered /\ ~verdict'.is_alert)
       => /\ sink_response'.action = "no-op"
          /\ db' = db
          /\ sink_response'.forensic_hash = ""]_vars

\* C17: the sink returns action = contain exactly when the re-evaluated
\* verdict is an alert and its severity is high or above or
\* AUTO_CONTAIN_ON_ALERT is enabled; in every other case it returns no-op.
C17_SinkAction ==
  [][AlertAnswered
       => sink_response'.action =
            IF /\ verdict'.is_alert
               /\ \/ verdict'.severity \in {"high", "critical"}
                  \/ settings.AUTO_CONTAIN_ON_ALERT
            THEN "contain" ELSE "no-op"]_vars

\* with auto-contain disabled, the sink has answered contain for an alert
\* of severity high
C17_Witness ==
  /\ ~settings.AUTO_CONTAIN_ON_ALERT
  /\ verdict.is_alert /\ verdict.severity = "high"
  /\ sink_response.action = "contain"

\* C19: after the containment POST for a session returns success = true the
\* proxy has been told to contain that session: the session id is in the
\* proxy's contained set (from where its forwarding stops).
C19_ContainReachesProxy ==
  contain_response.success => SID \in contained_sessions

\* C18: a contain call for a session that has already been contained
\* returns success, also when the session has meanwhile closed naturally.
C18_ContainIdempotent ==
  [][(contain_result' # contain_result /\ SID \in contained_sessions)
       => contain_result' = "True"]_vars

\* the forensic records no anchor covers
Pending == DOMAIN forensic_dir \ Range(anchor.forensic_files)

\* C20: whenever the number of forensic records not yet anchored reaches
\* batch_size, an anchor over exactly the pending records is emitted without
\* an explicit command: with batch_size = 3, once the poll pass that wrote
\* the third record is over, fewer than three records are pending.
C20_AutomaticAnchoring ==
  LET batch_size == 3
  IN new_events = <<>> => Cardinality(Pending) < batch_size

\* C21: verify_forensic_bundle(create_forensic_bundle(alert, artifacts)) is
\* true for every alert and every list of artifacts that carry hashes,
\* whatever the number of artifacts.
C21_BundleRoundTrip ==
  (bundle_ok # "none" /\ bundle.artifacts # <<>>) => bundle_ok = "True"

\* C22: the root of an empty leaf list is the empty string, and the root of
\* a list with a single leaf is that leaf itself.
C22_RootEdgeCases ==
  mstep # "drawn" =>
    /\ Len(leaves0) = 0 => root = ""
    /\ Len(leaves0) = 1 => root = leaves0[1]

\* C23: no two sessions handled by the proxy, concurrently or one after the
\* other, get the same session_id.
C23_SessionIdsUnique ==
  \A i, j \in 1..Len(conns) :
    i # j => conns[i].session_id # conns[j].session_id

\* C24: the verdict for an event of one session is the same whatever events
\* of other sessions the engine evaluated before it.
C24_SessionsIndependent == verdict2 = verdict

\* the sample that _check_heuristics stored for the chunk in hand
SampleInRing(d) ==
  \E i \in 1..Len(session.recent_samples) :
     session.recent_samples[i] =
       [timestamp |-> current_time[d], direction |-> d, bytes |-> data[d].size]

\* C25: in each direction the chunks written are at every moment a prefix,
\* in order, of the chunks read; in a session that is not contained, when
\* the forwarder is about to read the next chunk every chunk read so far
\* has been sampled and written; and while the heuristics are evaluated on
\* a chunk (and its alert is sent) its sample is in the ring and the chunk
\* is not yet written.
C25_PerDirectionOrder ==
  \A d \in Dirs :
     /\ Len(wr[d]) <= Len(rd[d])
     /\ wr[d] = Ids(Len(wr[d]))
     /\ ~Contained =>
          /\ pc[d] = "recv" =>
               /\ wr[d] = Ids(Len(rd[d]))
               /\ PacketsCounter(d) = Len(rd[d])
          /\ pc[d] \in {"eval", "rate", "alert", "act"} =>
               /\ SampleInRing(d)
               /\ PacketsCounter(d) = Len(rd[d])
               /\ wr[d] = Ids(Len(rd[d]) - 1)

C25_Witness ==
  /\ ~Contained
  /\ pc[C2S] = "recv" /\ Len(wr[C2S]) >= 2
  /\ pc[S2C] = "eval" /\ SampleInRing(S2C)
  /\ alerts > 0

\* C26: an append that the opposite direction's thread makes while one
\* direction evaluates the heuristics never makes that evaluation fail: no
\* forwarder ever dies inside _check_heuristics.
C26_ConsistentSnapshot == \A d \in Dirs : ~crashed[d]

\* C27: a direction ends at its own EOF only.  In a session that is not
\* contained and in which no forwarder has died, no forwarder ever finds
\* the socket it reads from, or the socket it writes to, closed by the
\* opposite direction.
C27_EofHalfClose ==
  [][(~Contained /\ \A e \in Dirs : ~crashed[e])
       => \A d \in Dirs : /\ ~RecvError(d)
                          /\ ~(Send(d) /\ sock[Dst(d)] = "closed")]_vars

\* the heuristics that the dict returned by _check_heuristics names
Reported(ha) == IF ha.heuristic = "none" THEN {} ELSE {ha.heuristic}

\* C28: when the evaluation of a client->server chunk finds the burst
\* condition of line 121 and the rate condition of line 149 both true, the
\* result of the evaluation names both heuristics.
C28_AllTriggeredReported ==
  [][(/\ Eval(C2S)
      /\ ClipboardTriggered(session.recent_samples, cfg.thresholds)
      /\ RateTriggered(session.recent_samples, current_time[C2S],
                       cfg.thresholds))
       => {"clipboard_exfiltration", "file_transfer_like"}
            \subseteq Reported(heuristic_alert'[C2S])]_vars

\* C29: with contain_on_alert set, a forwarder that acts on the outcome of
\* an alert contains the session and leaves the loop without writing the
\* chunk, whatever became of the POST.
C29_AutoContainAlways ==
  [][\A d \in Dirs : (cfg.contain_on_alert /\ Act(d))
        => (SID \in contained_sessions' /\ pc'[d] = "close_source")]_vars

\* the client->server bytes among the last ten samples of the session's ring
BurstBytes == SumBytes(LastN(session.recent_samples, CLIP_LAST_N), C2S)

RateExceeded ==
  WindowBytes(session.recent_samples, current_time[C2S]) * 8
    > cfg.thresholds.file_transfer_rate_threshold_kbps
        * (FILE_TRANSFER_WINDOW_SEC * 1024)

\* C31: the evaluation of a client->server chunk ends with
\* file_transfer_like exactly when the client->server bytes of the samples
\* inside the window, times 8, divided by window_sec * 1024, are strictly
\* more than the rate threshold.
C31_RateTrigger ==
  [][((Eval(C2S) /\ pc'[C2S] = "alert") \/ Rate(C2S))
       => (heuristic_alert'[C2S].heuristic = "file_transfer_like"
             <=> RateExceeded)]_vars

\* the connect of line 219 failed: the handler is in, or past, its finally
\* block and the upstream socket was never open
DialFailed == hpc \in {"cleanup", "closed"} /\ sock["server"] = "none"

\* C32: after a failed connect to the upstream server no forwarder was
\* started, nothing was read or written, no sample was stored, no counter
\* moved and no alert was posted; once the handler has returned the client
\* socket is closed and the session is out of the session table.
C32_DialFailure ==
  DialFailed =>
     /\ \A d \in Dirs : pc[d] = "unstarted" /\ rd[d] = <<>> /\ wr[d] = <<>>
     /\ session = NewSession
     /\ alerts = 0 /\ payload = NoPayload
     /\ hpc = "closed" => (sock["client"] = "closed" /\ SID \notin sessions)

C32_Witness ==
  /\ DialFailed /\ hpc = "closed"
  /\ sock["client"] = "closed" /\ sessions = {}

\* the last n entries of the ring, oldest first
RingTail(n) ==
  LET ring == session.recent_samples
      k == IF Len(ring) < n THEN Len(ring) ELSE n
  IN [i \in 1..k |-> ring[Len(ring) - k + i]]

\* C33: the ring never holds more than 100 samples; an append to a full
\* ring drops the oldest sample and puts the new one last; and the
\* recent_samples of an alert payload are the last 20 entries of the ring
\* (all of them when there are fewer), oldest first.
C33_BoundedRing ==
  [][/\ Len(session.recent_samples) <= RING_MAXLEN
     /\ Len(session'.recent_samples) <= RING_MAXLEN
     /\ \A d \in Dirs : AppendSample(d) =>
          LET ring == session.recent_samples
              sample == [timestamp |-> current_time[d], direction |-> d,
                         bytes |-> data[d].size]
          IN session'.recent_samples =
               (IF Len(ring) = RING_MAXLEN THEN Tail(ring) ELSE ring)
                 \o <<sample>>
     /\ \A d \in Dirs : SendAlert(d) =>
          /\ Len(payload'.recent_samples) <= PAYLOAD_LAST_N
          /\ payload'.recent_samples = RingTail(PAYLOAD_LAST_N)]_vars

C33_Witness ==
  /\ Len(session.recent_samples) = RING_MAXLEN
  /\ session.recent_samples[RING_MAXLEN].direction = S2C
  /\ session.client_to_server_packets + session.server_to_client_packets
       > RING_MAXLEN
  /\ payload # NoPayload
  /\ Len(payload.recent_samples) = PAYLOAD_LAST_N

\* the lines of the file whose number is in processed_lines, in file order
MarkedLines == SelectSeq([i \in 1..Len(lines) |-> <<i - 1, lines[i]>>],
                         LAMBDA x : x[1] \in processed_lines)

\* C34: between polls the events that process_event has been given are
\* exactly the lines marked as processed, once each and in file order, and
\* only lines that parse are marked.
C34_ExactlyOnce ==
  new_events = <<>> =>
     /\ hybrid.history_window = [k \in 1..Len(MarkedLines) |-> MarkedLines[k][2]]
     /\ \A i \in processed_lines : Parsable(lines[i + 1])

\* the screenshots of a history stamped within the w seconds that end at t
InWindow(h, t, w) ==
  {i \in 1..Len(h) : t - w <= h[i].timestamp /\ h[i].timestamp <= t}

\* C35: on a screenshot event the rules fire exactly when at least 5 of the
\* screenshots seen so far, the current one included, are stamped within
\* the 10 seconds that end at the current event's timestamp; an event of
\* another type does not fire the rule and leaves the screenshot history
\* as it was.
C35_ScreenshotBurst ==
  [][EvaluateRules =>
       LET e == engine'.event
           h == engine'.rules.screenshot_history
       IN IF e.event_type = "screenshot"
          THEN /\ h = Append(engine.rules.screenshot_history, e)
               /\ engine'.rule_alert <=>
                    Cardinality(InWindow(h, e.timestamp,
                                         SCREENSHOT_BURST_WINDOW_SEC))
                      >= SCREENSHOT_BURST_COUNT
          ELSE /\ h = engine.rules.screenshot_history
               /\ ~engine'.rule_alert]_vars

\* C36: with the default thresholds no evaluation ends in an alert: no
\* forwarder ever holds a heuristic alert, none reaches _send_alert or the
\* containment test behind it, and nothing is posted.
C36_DefaultsNeverFire ==
  cfg.thresholds = DefaultThresholds =>
     /\ alerts = 0 /\ payload = NoPayload
     /\ \A d \in Dirs : /\ heuristic_alert[d] = NoAlert
                        /\ pc[d] \notin {"alert", "act"}
                        /\ response[d] = "none" /\ result[d] = "none"

C36_Witness ==
  /\ cfg.thresholds = DefaultThresholds
  /\ pc[C2S] = "send" /\ data[C2S].size = RECV_SIZE
  /\ Len(rd[C2S]) > RING_MAXLEN
  /\ WindowBytes(session.recent_samples, current_time[C2S])
       = RING_MAXLEN * RECV_SIZE
  /\ Len(rd[S2C]) > 0

\* C37: when the sink evaluates an alert posted by the proxy no rule of the
\* backend fires, the verdict's severity is not high, and the answer is
\* contain only with AUTO_CONTAIN_ON_ALERT enabled.
C37_ProxyAlertsNeverHigh ==
  [][(nevents' = nevents + 1 /\ engine'.event.event_type \in ProxyHeuristics)
       => /\ ~engine'.rule_alert
          /\ verdict'.reasons \in {<<>>, <<"ML anomaly score">>}
          /\ verdict'.severity \in {"low", "medium"}
          /\ sink_response'.action = "contain"
               => settings.AUTO_CONTAIN_ON_ALERT]_vars

C37_Witness ==
  /\ nevents = MaxEvents
  /\ engine.event.event_type = "file_transfer_like"
  /\ Len(engine.history_window) = MaxEvents
  /\ ~settings.AUTO_CONTAIN_ON_ALERT
  /\ verdict.is_alert /\ verdict.severity = "medium"
  /\ sink_response.action = "no-op"

\* C38: the artifact_hashes of a bundle made from a non-empty list of
\* artifacts are the hashes of those artifacts, in order and as many.
C38_BundleHashesUnchanged ==
  (bundle # NoBundle /\ bundle.artifacts # <<>>)
     => bundle.artifact_hashes = bundle.artifacts

\* C39: once the root of the drawn leaf list is computed, no other leaf
\* list (of the lengths and leaves considered) has the same root.
C39_RootBindsLeaves ==
  mstep # "drawn" =>
     \A other \in LeafLists(MaxLeaves) :
        other # leaves0 => create_merkle_root(other) # root
====
